---- MODULE Spec2Model ----
(***************************************************************************)
(* A model of the PLC client backends of zapf: the ADS wire-protocol       *)
(* backend (proto/ads.rs), the Modbus register backend (proto/modbus.rs)   *)
(* and the Tango device-proxy backend (proto/tango.rs), all implementing   *)
(* the Protocol trait (proto/mod.rs).  One backend instance is modelled;   *)
(* the peer, the network and the external client libraries are the         *)
(* environment, whose answers are drawn from small sets.                   *)
(***************************************************************************)
EXTENDS Integers, Sequences, FiniteSets, TLC

VARIABLES
    backend,       \* which Protocol implementation the instance is: "ads", "modbus", "tango"
    overflow_checks, \* whether the build panics on integer overflow (debug) or wraps (release)
    pc,            \* position of the call in progress; "idle" between calls
    op,            \* the caller's call in progress or last completed: name and arguments
    depth,         \* number of connect() frames on the stack
    local,         \* TRUE while connect() owns a new transport object not yet stored in the field
    socket,        \* AdsProto.socket: None or Some
    client,        \* ModbusProto.client: None or Some
    device,        \* TangoProto.device: None or Some
    host_port,     \* AdsProto.port (TCP port)
    target_netid,  \* AdsProto.target_netid
    target_port,   \* AdsProto.target_port
    source_netid,  \* AdsProto.source_netid
    invoke_id,     \* AdsProto.invoke_id (u32, two 16-bit limbs)
    tried_route,   \* AdsProto.tried_route
    offset,        \* ModbusProto.offset / TangoProto.offset (usize, four 16-bit limbs)
    base,          \* the value of the last set_offset call (zero before any), as the caller sees it
    trace,         \* what the current call has done on the network so far, in order:
                   \* connections opened, items sent, datagrams, handshake results
    comm,          \* the most recent communicate() call: request, reply, result, bytes read
    result,        \* what the last completed call returned
    buf,           \* the caller's buffer of the last read_into
    dm             \* Io::new and its detect_magic(): position, probe index, the local
                   \* `magic`, the reads made so far, the PLC memory under the probe, result

vars == <<backend, overflow_checks, pc, op, depth, local, socket, client, device, host_port,
          target_netid, target_port, source_netid, invoke_id, tried_route,
          offset, base, trace, comm, result, buf, dm>>

\* what construction fixes for the life of the instance
fixed == <<backend, overflow_checks, host_port, target_netid, target_port>>

-----------------------------------------------------------------------------
(* Bounds of the model *)

\* longest buffer of an ADS / Tango read or write
MaxLen == 2
\* communicate() calls after which no new caller operation is started
MaxCalls == 3

-----------------------------------------------------------------------------
(* Fixed-width integers.  A usize is four 16-bit limbs, a u32 two, least     *)
(* significant first, so that sums and casts keep their width.              *)

B16 == 256 * 256

USIZE(n) == <<n % B16, n \div B16, 0, 0>>
U32(n) == <<n % B16, n \div B16>>

\* `x as u32` of a usize: the low 32 bits
AsU32(x) == <<x[1], x[2]>>
FitsU32(x) == x[3] = 0 /\ x[4] = 0
FitsU16(x) == x[2] = 0 /\ x[3] = 0 /\ x[4] = 0

\* a + b on usize: the wrapped sum and whether it overflowed
AddUsize(a, b) ==
    LET s1 == a[1] + b[1]
        s2 == a[2] + b[2] + s1 \div B16
        s3 == a[3] + b[3] + s2 \div B16
        s4 == a[4] + b[4] + s3 \div B16
    IN  [val |-> <<s1 % B16, s2 % B16, s3 % B16, s4 % B16>>,
         overflow |-> s4 >= B16]

\* x / 2 on usize
HalfUsize(x) ==
    <<x[1] \div 2 + (x[2] % 2) * (B16 \div 2),
      x[2] \div 2 + (x[3] % 2) * (B16 \div 2),
      x[3] \div 2 + (x[4] % 2) * (B16 \div 2),
      x[4] \div 2>>

\* a variant of WrappingAdd1 that stays at the largest u32
WrappingAdd1_Saturating(x) ==
    IF x[1] + 1 < B16 THEN <<x[1] + 1, x[2]>>
    ELSE IF x[2] + 1 < B16 THEN <<0, x[2] + 1>>
    ELSE x

\* u32::wrapping_add(1)
WrappingAdd1(x) ==
    IF x[1] + 1 < B16 THEN <<x[1] + 1, x[2]>>
    ELSE <<0, (x[2] + 1) % B16>>

\* the u32 before x (the invoke-id of the previous request)
WrappingSub1(x) ==
    IF x[1] > 0 THEN <<x[1] - 1, x[2]>>
    ELSE <<B16 - 1, (x[2] + B16 - 1) % B16>>

-----------------------------------------------------------------------------
(* Results and errors (lib.rs) *)

None == "None"
Some == "Some"

Ok == [tag |-> "Ok"]
Err(e) == [tag |-> "Err", err |-> e]
Panic == [tag |-> "Panic"]
NoResult == [tag |-> "NoResult"]

IsErr(r) == r.tag = "Err"

IoError(kind) == [kind |-> "IO", io |-> kind]
AdsError(msg, code) == [kind |-> "ADS", msg |-> msg, code |-> code]
ModbusError(what) == [kind |-> "Modbus", what |-> what]
TangoError == [kind |-> "Tango"]
TangoProtoError(msg) == [kind |-> "TangoProto", msg |-> msg]
Wrapped(e, ann) == [kind |-> "Wrapped", cause |-> e, ann |-> ann]

-----------------------------------------------------------------------------
(* ADS constants and the error catalog (ads.rs) *)

ADS_PORT == 48898
UDP_PORT == 48899
INDEXGROUP_M == 16416
ADS_DEVINFO == 1
ADS_READ == 2
ADS_WRITE == 3
UDP_MAGIC == 1897162243
UDP_ADD_ROUTE == 6
SOURCE_PORT == 800
REQUEST_FLAGS == 4
RESPONSE_FLAGS == 5

\* size_of of the packed structs
SizeOfAdsHeader == 38
SizeOfAdsDataAddr == 12
SizeOfAdsDevInfo == 20

ADS_ERRORS == <<
    <<1, "Internal error">>,
    <<2, "No real-time">>,
    <<3, "Allocation locked - memory error">>,
    <<4, "Mailbox full - ADS message could not be sent">>,
    <<5, "Wrong receive HMSG">>,
    <<6, "Target port not found, possibly ADS server not started">>,
    <<7, "Target machine not found, possibly missing ADS routes">>,
    <<8, "Unknown command ID">>,
    <<9, "Invalid task ID">>,
    <<10, "No IO">>,
    <<11, "Unknown AMS command">>,
    <<12, "Win32 error">>,
    <<13, "Port not connected">>,
    <<14, "Invalid AMS length">>,
    <<15, "Invalid AMS NetID">>,
    <<16, "Low installation level">>,
    <<17, "No debugging available">>,
    <<18, "Port disabled - system service not started">>,
    <<19, "Port already connected">>,
    <<20, "AMS Sync Win32 error">>,
    <<21, "AMS Sync timeout">>,
    <<22, "AMS Sync error">>,
    <<23, "AMS Sync no index map">>,
    <<24, "Invalid AMS port">>,
    <<25, "No memory">>,
    <<26, "TCP send error">>,
    <<27, "Host unreachable">>,
    <<28, "Invalid AMS fragment">>,
    <<29, "TLS send error - secure ADS connection failed">>,
    <<30, "Access denied - secure ADS access denied">>,
    <<1280, "Router: no locked memory">>,
    <<1281, "Router: memory size could not be changed">>,
    <<1282, "Router: mailbox full">>,
    <<1283, "Router: debug mailbox full">>,
    <<1284, "Router: port type is unknown">>,
    <<1285, "Router is not initialized">>,
    <<1286, "Router: desired port number is already assigned">>,
    <<1287, "Router: port not registered">>,
    <<1288, "Router: maximum number of ports reached">>,
    <<1289, "Router: port is invalid">>,
    <<1290, "Router is not active">>,
    <<1291, "Router: mailbox full for fragmented messages">>,
    <<1292, "Router: fragment timeout occurred">>,
    <<1293, "Router: port removed">>,
    <<1792, "General device error">>,
    <<1793, "Service is not supported by server">>,
    <<1794, "Invalid index group">>,
    <<1795, "Invalid index offset">>,
    <<1796, "Reading/writing not permitted">>,
    <<1797, "Parameter size not correct">>,
    <<1798, "Invalid parameter value(s)">>,
    <<1799, "Device is not in a ready state">>,
    <<1800, "Device is busy">>,
    <<1801, "Invalid OS context -> use multi-task data access">>,
    <<1802, "Out of memory">>,
    <<1803, "Invalid parameter value(s)">>,
    <<1804, "Not found (files, ...)">>,
    <<1805, "Syntax error in command or file">>,
    <<1806, "Objects do not match">>,
    <<1807, "Object already exists">>,
    <<1808, "Symbol not found">>,
    <<1809, "Symbol version invalid -> create a new handle">>,
    <<1810, "Server is in an invalid state">>,
    <<1811, "AdsTransMode not supported">>,
    <<1812, "Notification handle is invalid">>,
    <<1813, "Notification client not registered">>,
    <<1814, "No more notification handles">>,
    <<1815, "Notification size too large">>,
    <<1816, "Device not initialized">>,
    <<1817, "Device has a timeout">>,
    <<1818, "Query interface failed">>,
    <<1819, "Wrong interface required">>,
    <<1820, "Class ID is invalid">>,
    <<1821, "Object ID is invalid">>,
    <<1822, "Request is pending">>,
    <<1823, "Request is aborted">>,
    <<1824, "Signal warning">>,
    <<1825, "Invalid array index">>,
    <<1826, "Symbol not active -> release handle and try again">>,
    <<1827, "Access denied">>,
    <<1828, "No license found -> activate license">>,
    <<1829, "License expired">>,
    <<1830, "License exceeded">>,
    <<1831, "License invalid">>,
    <<1832, "Invalid system ID in license">>,
    <<1833, "License not time limited">>,
    <<1834, "License issue time in the future">>,
    <<1835, "License time period too long">>,
    <<1836, "Exception in device specific code -> check each device">>,
    <<1837, "License file read twice">>,
    <<1838, "Invalid signature">>,
    <<1839, "Invalid public key certificate">>,
    <<1840, "Public key not known from OEM">>,
    <<1841, "License not valid for this system ID">>,
    <<1842, "Demo license prohibited">>,
    <<1843, "Invalid function ID">>,
    <<1844, "Outside the valid range">>,
    <<1845, "Invalid alignment">>,
    <<1846, "Invalid platform level">>,
    <<1847, "Context - forward to passive level">>,
    <<1848, "Content - forward to dispatch level">>,
    <<1849, "Context - forward to real-time">>,
    <<1856, "General client error">>,
    <<1857, "Invalid parameter at service">>,
    <<1858, "Polling list is empty">>,
    <<1859, "Var connection already in use">>,
    <<1860, "Invoke ID in use">>,
    <<1861, "Timeout elapsed -> check route setting">>,
    <<1862, "Error in Win32 subsystem">>,
    <<1863, "Invalid client timeout value">>,
    <<1864, "ADS port not opened">>,
    <<1865, "No AMS address">>,
    <<1872, "Internal error in ADS sync">>,
    <<1873, "Hash table overflow">>,
    <<1874, "Key not found in hash">>,
    <<1875, "No more symbols in cache">>,
    <<1876, "Invalid response received">>,
    <<1877, "Sync port is locked">>,
    <<4096, "Internal error in real-time system">>,
    <<4097, "Timer value not valid">>,
    <<4098, "Task pointer has invalid value 0">>,
    <<4099, "Stack pointer has invalid value 0">>,
    <<4100, "Requested task priority already assigned">>,
    <<4101, "No free Task Control Block">>,
    <<4102, "No free semaphores">>,
    <<4103, "No free space in the queue">>,
    <<4109, "External sync interrupt already applied">>,
    <<4110, "No external sync interrupt applied">>,
    <<4111, "External sync interrupt application failed">>,
    <<4112, "Call of service function in wrong context">>,
    <<4119, "Intel VT-x not supported">>,
    <<4120, "Intel VT-x not enabled in BIOS">>,
    <<4121, "Missing function in Intel VT-x">>,
    <<4122, "Activation of Intel VT-x failed">>
>>

\* slice::binary_search_by_key over ADS_ERRORS[lo+1 .. hi]: the index found, or 0
RECURSIVE BinarySearch(_, _, _)
BinarySearch(key, lo, hi) ==
    IF lo >= hi THEN 0
    ELSE LET mid == lo + (hi - lo) \div 2
             k == ADS_ERRORS[mid + 1][1]
         IN  IF k = key THEN mid + 1
             ELSE IF k < key THEN BinarySearch(key, mid + 1, hi)
             ELSE BinarySearch(key, lo, mid)

\* a variant of find_ads_error that never consults the catalog
find_ads_error_Unknown(err) ==
    Err(AdsError("Unknown error code", U32(err)))

find_ads_error(err) ==
    LET idx == BinarySearch(err, 0, Len(ADS_ERRORS))
    IN  IF idx > 0 THEN Err(AdsError(ADS_ERRORS[idx][2], U32(err)))
        ELSE Err(AdsError("Unknown error code", U32(err)))

-----------------------------------------------------------------------------
(* ADS wire structures (ads.rs) *)

\* the request header communicate() builds for invoke-id `id`
AdsHeader(cmd, data_in_len, id) ==
    [reserved |-> 0,
     length |-> SizeOfAdsHeader - 6 + data_in_len,
     target_netid |-> target_netid,
     target_port |-> target_port,
     source_netid |-> source_netid,
     source_port |-> SOURCE_PORT,
     command_id |-> cmd,
     state_flags |-> REQUEST_FLAGS,
     data_length |-> data_in_len,
     error_code |-> 0,
     invoke_id |-> id]

\* the payload of a read or write request; `len` is data.len()
AdsDataAddr(addr, len) ==
    [indexgroup |-> INDEXGROUP_M, address |-> AsU32(addr), length |-> len]

\* the fields of a reply communicate() looks at: the reply header and the result
NoReply ==
    [state_flags |-> 0, data_length |-> 0, error_code |-> 0,
     invoke_id |-> <<0, 0>>, result |-> 0]

\* a u32 as the four bytes the peer sends, least significant first
LeBytes4(n) == <<n % 256, (n \div 256) % 256, 0, 0>>

\* the device-info structure a peer answers the handshake with
DevInfoBytes == [i \in 1..SizeOfAdsDevInfo |-> IF i <= 2 THEN 3 ELSE IF i = 5 THEN 80 ELSE 0]

-----------------------------------------------------------------------------
(* The peer and the network as seen by communicate(): where an I/O call     *)
(* fails (fail), with which io::ErrorKind (kind), and otherwise the reply    *)
(* and the bytes that follow it on the stream.                               *)

Bytes == {0, 1}

RECURSIVE SeqsOfLen(_, _)
SeqsOfLen(S, n) ==
    IF n = 0 THEN {<<>>}
    ELSE {Append(s, b) : s \in SeqsOfLen(S, n - 1), b \in S}

\* replies a peer may send to a request with invoke-id `id` that expects
\* `exp` bytes after the header
Replies(exp, id) ==
    [state_flags : {RESPONSE_FLAGS, REQUEST_FLAGS},
     data_length : {exp, exp - 4, 0},
     error_code : {0, 6},
     invoke_id : {id, WrappingSub1(id)},
     result : {0, 1793}]

GoodReply(exp, id) ==
    [state_flags |-> RESPONSE_FLAGS, data_length |-> exp, error_code |-> 0,
     invoke_id |-> id, result |-> 0]

CommEnv(fail, kind, reply, out, out2) ==
    [fail |-> fail, kind |-> kind, reply |-> reply, out |-> out, out2 |-> out2]

\* outs / out2s: the contents the peer may send for data_out / data_out_2
CommEnvs(in_len, in2_len, out_len, out2_len, id, outs, out2s) ==
    LET exp == out_len + out2_len + 4
        o1 == CHOOSE o \in outs : TRUE
        o2 == CHOOSE o \in out2s : TRUE
    IN  {CommEnv("w1", "BrokenPipe", NoReply, <<>>, <<>>)}
        \cup {CommEnv("w2", "BrokenPipe", NoReply, <<>>, <<>>) : x \in {1} \cap 1..in_len}
        \cup {CommEnv("w3", "BrokenPipe", NoReply, <<>>, <<>>) : x \in {1} \cap 1..in2_len}
        \cup {CommEnv("r1", k, NoReply, <<>>, <<>>) : k \in {"UnexpectedEof", "TimedOut"}}
        \cup {CommEnv("r2", "UnexpectedEof", GoodReply(exp, id), <<>>, <<>>) : x \in {1} \cap 1..out_len}
        \cup {CommEnv("r3", "UnexpectedEof", GoodReply(exp, id), o1, <<>>) : x \in {1} \cap 1..out2_len}
        \cup {CommEnv("none", "none", GoodReply(exp, id), o, p) : o \in outs, p \in out2s}
        \cup {CommEnv("none", "none", r, o1, o2) : r \in Replies(exp, id) \ {GoodReply(exp, id)}}

-----------------------------------------------------------------------------
(* AdsProto::communicate *)

\* variants of CheckReply, each with one plausible slip
CheckReply_InvokeBeforeError(header_in, header_out, out_len, out2_len) ==
    IF header_out.state_flags # 5
        THEN Err(AdsError("unexpected state flags", U32(header_out.state_flags)))
    ELSE IF header_out.data_length # out_len + out2_len + 4
        THEN Err(AdsError("unexpected data length", U32(header_out.data_length)))
    ELSE IF header_out.invoke_id # header_in.invoke_id
        THEN Err(AdsError("invoke ID not matching", header_out.invoke_id))
    ELSE IF header_out.error_code # 0
        THEN find_ads_error(header_out.error_code)
    ELSE IF header_out.result # 0
        THEN find_ads_error(header_out.result)
    ELSE Ok

CheckReply_NoInvokeCheck(header_in, header_out, out_len, out2_len) ==
    IF header_out.state_flags # 5
        THEN Err(AdsError("unexpected state flags", U32(header_out.state_flags)))
    ELSE IF header_out.data_length # out_len + out2_len + 4
        THEN Err(AdsError("unexpected data length", U32(header_out.data_length)))
    ELSE IF header_out.error_code # 0
        THEN find_ads_error(header_out.error_code)
    ELSE IF header_out.result # 0
        THEN find_ads_error(header_out.result)
    ELSE Ok

CheckReply_NoResultWord(header_in, header_out, out_len, out2_len) ==
    IF header_out.state_flags # 5
        THEN Err(AdsError("unexpected state flags", U32(header_out.state_flags)))
    ELSE IF header_out.data_length # out_len + out2_len
        THEN Err(AdsError("unexpected data length", U32(header_out.data_length)))
    ELSE IF header_out.error_code # 0
        THEN find_ads_error(header_out.error_code)
    ELSE IF header_out.invoke_id # header_in.invoke_id
        THEN Err(AdsError("invoke ID not matching", header_out.invoke_id))
    ELSE IF header_out.result # 0
        THEN find_ads_error(header_out.result)
    ELSE Ok

\* the checks of the reply, in the order of the code; Ok when all pass
CheckReply(header_in, header_out, out_len, out2_len) ==
    IF header_out.state_flags # 5
        THEN Err(AdsError("unexpected state flags", U32(header_out.state_flags)))
    ELSE IF header_out.data_length # out_len + out2_len + 4
        THEN Err(AdsError("unexpected data length", U32(header_out.data_length)))
    ELSE IF header_out.error_code # 0
        THEN find_ads_error(header_out.error_code)
    ELSE IF header_out.invoke_id # header_in.invoke_id
        THEN Err(AdsError("invoke ID not matching", header_out.invoke_id))
    ELSE IF header_out.result # 0
        THEN find_ads_error(header_out.result)
    ELSE Ok

CommResult(cmd, hdr, sent, got, reply, res, avail, out, out2) ==
    [cmd |-> cmd, hdr |-> hdr, sent |-> sent, got |-> got, reply |-> reply,
     res |-> res, avail |-> avail, out |-> out, out2 |-> out2]

NoComm ==
    CommResult(0, AdsHeader(0, 0, <<0, 0>>), <<>>, FALSE, NoReply, NoResult, <<>>, <<>>, <<>>)

\* what communicate() sends, in order: header, data_in, data_in_2 (if not empty)
SentItems(header_in, data_in, data_in_len, data_in_2) ==
    <<<<"header", header_in>>>>
    \o (IF data_in_len > 0 THEN <<<<"data", data_in>>>> ELSE <<>>)
    \o (IF Len(data_in_2) > 0 THEN <<<<"data", data_in_2>>>> ELSE <<>>)

\* one call of communicate() on the current state against peer behaviour env;
\* invoke_id is incremented by the caller of this operator with WrappingAdd1
Communicate(cmd, data_in, data_in_len, data_in_2, out_len, out2_len, env) ==
    LET id == WrappingAdd1(invoke_id)
        header_in == AdsHeader(cmd, data_in_len, id)
        all == SentItems(header_in, data_in, data_in_len, data_in_2)
        ioerr == Err(IoError(env.kind))
        avail == env.out \o env.out2
        chk == CheckReply(header_in, env.reply, out_len, out2_len)
    IN  IF socket = None
            THEN CommResult(cmd, header_in, <<>>, FALSE, NoReply, Ok, <<>>, <<>>, <<>>)
        ELSE IF env.fail = "w1"
            THEN CommResult(cmd, header_in, <<>>, FALSE, NoReply, ioerr, <<>>, <<>>, <<>>)
        ELSE IF env.fail = "w2"
            THEN CommResult(cmd, header_in, SubSeq(all, 1, 1), FALSE, NoReply, ioerr, <<>>, <<>>, <<>>)
        ELSE IF env.fail = "w3"
            THEN CommResult(cmd, header_in, SubSeq(all, 1, 2), FALSE, NoReply, ioerr, <<>>, <<>>, <<>>)
        ELSE IF env.fail = "r1"
            THEN CommResult(cmd, header_in, all, FALSE, NoReply, ioerr, <<>>, <<>>, <<>>)
        ELSE IF IsErr(chk)
            THEN CommResult(cmd, header_in, all, TRUE, env.reply, chk, avail, <<>>, <<>>)
        ELSE IF env.fail = "r2"
            THEN CommResult(cmd, header_in, all, TRUE, env.reply, ioerr, avail, <<>>, <<>>)
        ELSE IF env.fail = "r3"
            THEN CommResult(cmd, header_in, all, TRUE, env.reply, ioerr, avail, env.out, <<>>)
        ELSE CommResult(cmd, header_in, all, TRUE, env.reply, Ok, avail, env.out, env.out2)

-----------------------------------------------------------------------------
(* AdsProto::set_route *)

\* the route datagram with password field `pass`; myhost is the dotted form
\* of the first four octets of the source net id, kept here as the octets
UdpRouteMessage(pass) ==
    [magic |-> UDP_MAGIC, operation |-> UDP_ADD_ROUTE,
     source_netid |-> source_netid, source_port |-> SOURCE_PORT,
     str_netid |-> source_netid, str_user |-> "Administrator",
     str_pass |-> pass, str_host |-> SubSeq(source_netid, 1, 4),
     to_port |-> UDP_PORT]

RouteOutcomes == {"ok", "bind_err", "send1_err", "send2_err"}

\* a variant of SetRoute that tries the password "1" first
SetRoute_PasswordsExchanged(o) ==
    LET d1 == <<"udp", UdpRouteMessage(<<49, 0>>)>>
        d2 == <<"udp", UdpRouteMessage(<<0, 0>>)>>
    IN  IF o = "bind_err" \/ o = "send1_err"
            THEN [res |-> Err(IoError("Other")), sent |-> <<>>]
        ELSE IF o = "send2_err"
            THEN [res |-> Err(IoError("Other")), sent |-> <<d1>>]
        ELSE [res |-> Ok, sent |-> <<d1, d2>>]

\* set_route(): its result and the datagrams that left before it returned
SetRoute(o) ==
    LET d1 == <<"udp", UdpRouteMessage(<<0, 0>>)>>
        d2 == <<"udp", UdpRouteMessage(<<49, 0>>)>>
    IN  IF o = "bind_err" \/ o = "send1_err"
            THEN [res |-> Err(IoError("Other")), sent |-> <<>>]
        ELSE IF o = "send2_err"
            THEN [res |-> Err(IoError("Other")), sent |-> <<d1>>]
        ELSE [res |-> Ok, sent |-> <<d1, d2>>]

-----------------------------------------------------------------------------
(* The caller's calls.  A call starts from "idle" and runs, step by step,   *)
(* until it returns; no other call starts before.                            *)

\* a call and its arguments; tried is tried_route when the call began
OpRec(name, addr, len, data) ==
    [name |-> name, addr |-> addr, len |-> len, data |-> data, tried |-> tried_route]

\* contents of a caller's buffer before read_into fills it
BufInit(n) == [i \in 1..n |-> 238]
\* the bytes a caller writes
DataOf(n) == [i \in 1..n |-> (16 + i) % 256]

AdsAddrs == {USIZE(2), <<2, 0, 1, 0>>}
Offsets == {USIZE(0), USIZE(4)}

\* no call is in progress and the instance has not been moved into an Io
Idle == pc = "idle" /\ dm.pc = "off"

\* the calls that use communicate() begin while fewer than MaxCalls requests
\* were made since the invoke-id was last zero, or it is about to wrap
CanStart ==
    /\ Idle
    /\ \/ invoke_id[2] = 0 /\ invoke_id[1] < MaxCalls
       \/ invoke_id = <<B16 - 1, B16 - 1>>

\* a call begins: nothing on the trace yet, no communicate() yet, no result yet
Begin(o, b) ==
    /\ op' = o
    /\ buf' = b
    /\ trace' = <<>>
    /\ comm' = NoComm
    /\ result' = NoResult

\* a variant of ConnectReturn in which read_into / write go on after a failed
\* reconnect
ConnectReturn_IgnoreError(r) ==
    /\ depth' = 0
    /\ IF op.name = "connect"
          THEN pc' = "idle" /\ result' = r
          ELSE pc' = "request" /\ result' = result

\* connect() returns r to its caller: to the user, or into read_into / write,
\* which pass an error on (`self.reconnect()?`) and otherwise go on
ConnectReturn(r) ==
    /\ depth' = 0
    /\ IF op.name = "connect" \/ IsErr(r)
          THEN pc' = "idle" /\ result' = r
          ELSE pc' = "request" /\ result' = result

-----------------------------------------------------------------------------
(* AdsProto: impl Protocol *)

AdsConnect ==
    /\ backend = "ads" /\ CanStart
    /\ Begin(OpRec("connect", USIZE(0), 0, <<>>), <<>>)
    /\ pc' = "connect" /\ depth' = 1
    /\ UNCHANGED <<fixed, dm, local, socket, client, device, source_netid, invoke_id,
                   tried_route, offset, base>>

TcpOutcomes == {"ok", "resolve_err", "refused", "timeout"}

\* connect(), lines 202-206: resolve the host and open the TCP connection
AdsTcpConnect ==
    /\ backend = "ads" /\ pc = "connect"
    /\ \E o \in TcpOutcomes :
        /\ trace' = IF o = "resolve_err" THEN Append(trace, <<"resolve", o>>)
                    ELSE Append(trace, <<"tcp_connect", host_port, o>>)
        /\ IF o = "ok"
              THEN /\ local' = TRUE
                   /\ pc' = "setup"
                   /\ UNCHANGED <<depth, result>>
              ELSE /\ ConnectReturn(Err(IoError(IF o = "refused" THEN "ConnectionRefused"
                                                ELSE IF o = "timeout" THEN "TimedOut"
                                                ELSE "Other")))
                   /\ UNCHANGED local
    /\ UNCHANGED <<fixed, dm, op, socket, client, device, source_netid, invoke_id,
                   tried_route, offset, base, comm, buf>>

LocalAddrs == {<<"V4", <<10, 0, 0, 7>>>>, <<"V6", <<>>>>}

\* connect(), lines 208-220: socket options, the source net id from the local
\* address, and the new socket stored in the field (the old one is dropped)
AdsSetup ==
    /\ backend = "ads" /\ pc = "setup"
    /\ \/ /\ local' = FALSE
          /\ trace' = Append(trace, <<"setup", "err">>)
          /\ ConnectReturn(Err(IoError("Other")))
          /\ UNCHANGED <<source_netid, socket>>
       \/ \E my_addr \in LocalAddrs :
          /\ UNCHANGED trace
          /\ source_netid' = IF my_addr[1] = "V4" THEN my_addr[2] \o <<1, 1>>
                             ELSE <<127, 0, 0, 1, 1, 1>>
          /\ socket' = Some
          /\ local' = FALSE
          /\ pc' = "handshake"
          /\ UNCHANGED <<depth, result>>
    /\ UNCHANGED <<fixed, dm, op, client, device, invoke_id, tried_route, offset, base,
                   comm, buf>>

\* a variant of ShouldSetRoute that forgets the one-shot flag
ShouldSetRoute_NoFlag(res) ==
    /\ IsErr(res)
    /\ res.err.kind = "IO"
    /\ res.err.io = "UnexpectedEof"
    /\ host_port = ADS_PORT

\* a variant of ShouldSetRoute that does not look at the TCP port
ShouldSetRoute_AnyPort(res) ==
    /\ IsErr(res)
    /\ res.err.kind = "IO"
    /\ res.err.io = "UnexpectedEof"
    /\ ~tried_route

\* connect(), lines 224-232: is this failure answered by setting a route?
ShouldSetRoute(res) ==
    /\ IsErr(res)
    /\ res.err.kind = "IO"
    /\ res.err.io = "UnexpectedEof"
    /\ ~tried_route
    /\ host_port = ADS_PORT

\* connect(), lines 221-246: the device-info handshake, and on a closed
\* connection the route datagrams and the recursive connect()
AdsHandshake ==
    /\ backend = "ads" /\ pc = "handshake"
    /\ \E env \in CommEnvs(0, 0, 0, SizeOfAdsDevInfo, WrappingAdd1(invoke_id),
                           {<<>>}, {DevInfoBytes}),
          rt \in RouteOutcomes :
        LET c == Communicate(ADS_DEVINFO, <<>>, 0, <<>>, 0, SizeOfAdsDevInfo, env)
        IN  /\ invoke_id' = WrappingAdd1(invoke_id)
            /\ comm' = c
            /\ IF ShouldSetRoute(c.res)
                  THEN /\ tried_route' = TRUE
                       /\ trace' = trace \o c.sent \o <<<<"handshake", c.res>>, <<"set_route">>>>
                                      \o SetRoute(rt).sent
                                      \o <<<<"set_route_result", SetRoute(rt).res>>>>
                       /\ depth' = depth + 1
                       /\ pc' = "connect"
                       /\ UNCHANGED result
                  ELSE /\ trace' = trace \o c.sent \o <<<<"handshake", c.res>>>>
                       /\ ConnectReturn(c.res)
                       /\ UNCHANGED tried_route
    /\ UNCHANGED <<fixed, dm, op, local, socket, client, device, source_netid, offset,
                   base, buf>>

\* a variant of AdsDisconnect that also clears the one-shot flag
AdsDisconnect_ResetFlag ==
    /\ backend = "ads" /\ Idle
    /\ Begin(OpRec("disconnect", USIZE(0), 0, <<>>), <<>>)
    /\ socket' = None
    /\ tried_route' = FALSE
    /\ UNCHANGED <<fixed, dm, pc, depth, local, client, device, source_netid, invoke_id,
                   offset, base>>

\* disconnect(), line 250
AdsDisconnect ==
    /\ backend = "ads" /\ Idle
    /\ Begin(OpRec("disconnect", USIZE(0), 0, <<>>), <<>>)
    /\ socket' = None
    /\ UNCHANGED <<fixed, dm, pc, depth, local, client, device, source_netid, invoke_id,
                   tried_route, offset, base>>

\* set_offset ignores its argument
AdsSetOffset ==
    /\ backend = "ads" /\ Idle
    /\ \E v \in Offsets :
        /\ Begin(OpRec("set_offset", v, 0, <<>>), <<>>)
        /\ base' = v
    /\ UNCHANGED <<fixed, dm, pc, depth, local, socket, client, device, source_netid,
                   invoke_id, tried_route, offset>>

\* read_into(), lines 254-256
AdsReadInto ==
    /\ backend = "ads" /\ CanStart
    /\ \E addr \in AdsAddrs, n \in 0..MaxLen :
        Begin(OpRec("read_into", addr, n, <<>>), BufInit(n))
    /\ IF socket = None THEN pc' = "connect" /\ depth' = 1
                        ELSE pc' = "request" /\ depth' = 0
    /\ UNCHANGED <<fixed, dm, local, socket, client, device, source_netid, invoke_id,
                   tried_route, offset, base>>

\* write(), lines 272-274
AdsWrite ==
    /\ backend = "ads" /\ CanStart
    /\ \E addr \in AdsAddrs, n \in 0..MaxLen :
        Begin(OpRec("write", addr, n, DataOf(n)), <<>>)
    /\ IF socket = None THEN pc' = "connect" /\ depth' = 1
                        ELSE pc' = "request" /\ depth' = 0
    /\ UNCHANGED <<fixed, dm, local, socket, client, device, source_netid, invoke_id,
                   tried_route, offset, base>>

\* the annotation read_into() and write() wrap an error of communicate() in
ReadAnnotation == "read"
WriteAnnotation == "read"

\* the contents the peer may hold where n bytes are read: under a probe of
\* detect_magic the PLC memory at the probed offset
PeerBytes(n) == IF dm.pc = "read" THEN {dm.mem} ELSE SeqsOfLen(Bytes, n)

\* read_into(), lines 257-268
AdsReadRequest ==
    /\ backend = "ads" /\ pc = "request" /\ op.name = "read_into"
    /\ \E env \in CommEnvs(SizeOfAdsDataAddr, 0, 4, op.len, WrappingAdd1(invoke_id),
                           {LeBytes4(op.len), LeBytes4(0)}, PeerBytes(op.len)) :
        LET payload == AdsDataAddr(op.addr, op.len)
            c == Communicate(ADS_READ, payload, SizeOfAdsDataAddr, <<>>, 4, op.len, env)
        IN  /\ invoke_id' = WrappingAdd1(invoke_id)
            /\ comm' = c
            /\ trace' = trace \o c.sent
            /\ buf' = IF Len(c.out2) = op.len THEN c.out2 ELSE buf
            /\ IF IsErr(c.res)
                  THEN /\ socket' = None
                       /\ result' = Err(Wrapped(c.res.err, ReadAnnotation))
                  ELSE /\ result' = Ok
                       /\ UNCHANGED socket
    /\ pc' = "idle"
    /\ UNCHANGED <<fixed, dm, op, depth, local, client, device, source_netid,
                   tried_route, offset, base>>

\* the second input of communicate() in write(): the code passes `&[]`
WriteDataIn2(data) == <<>>

\* write(), lines 275-285
AdsWriteRequest ==
    /\ backend = "ads" /\ pc = "request" /\ op.name = "write"
    /\ \E env \in CommEnvs(SizeOfAdsDataAddr, Len(WriteDataIn2(op.data)), 0, 0,
                           WrappingAdd1(invoke_id), {<<>>}, {<<>>}) :
        LET payload == AdsDataAddr(op.addr, op.len)
            c == Communicate(ADS_WRITE, payload, SizeOfAdsDataAddr,
                             WriteDataIn2(op.data), 0, 0, env)
        IN  /\ invoke_id' = WrappingAdd1(invoke_id)
            /\ comm' = c
            /\ trace' = trace \o c.sent
            /\ IF IsErr(c.res)
                  THEN /\ socket' = None
                       /\ result' = Err(Wrapped(c.res.err, WriteAnnotation))
                  ELSE /\ result' = Ok
                       /\ UNCHANGED socket
    /\ pc' = "idle"
    /\ UNCHANGED <<fixed, dm, op, depth, local, client, device, source_netid,
                   tried_route, offset, base, buf>>

NextAds ==
    \/ AdsConnect \/ AdsTcpConnect \/ AdsSetup \/ AdsHandshake
    \/ AdsDisconnect \/ AdsSetOffset
    \/ AdsReadInto \/ AdsWrite \/ AdsReadRequest \/ AdsWriteRequest

-----------------------------------------------------------------------------
(* ModbusProto (modbus.rs).  The modbus client library and the peer are the *)
(* environment: a register read returns `count` registers of the peer's     *)
(* memory, or fails with an I/O error or with another modbus error; a      *)
(* range that runs past register 65535, or a quantity outside 1..125 (read) *)
(* or 1..123 (write), is refused with an error that is not an I/O error.    *)

\* byte addresses of registers 0, 1, 65411 (125 registers from it end at
\* register 65535), 65535 and 65536
MbAddrs == {USIZE(0), USIZE(2), USIZE(130822), USIZE(131070), USIZE(131072)}
MbOffsets == Offsets \cup {<<B16 - 2, B16 - 1, B16 - 1, B16 - 1>>}
MbLens == {0, 1, 2, 3, 250, 252, 502}

\* convert_addr(): (self.offset + addr) / 2 as a u16.  The usize sum panics
\* on overflow in a build with overflow checks and wraps in one without.
convert_addr(addr) ==
    LET sum == AddUsize(offset, addr)
        reg == HalfUsize(sum.val)
    IN  IF sum.overflow /\ overflow_checks THEN Panic
        ELSE IF FitsU16(reg) THEN [tag |-> "Ok", val |-> reg[1]]
        ELSE Err(ModbusError("Address too big"))

\* the 16-bit register the peer holds at register address a: under a probe
\* of detect_magic the two registers read are the PLC memory at the probed
\* offset, low word first
PeerReg(a) ==
    IF dm.pc = "read"
        THEN LET k == (a - convert_addr(op.addr).val) % 2
             IN  dm.mem[2 * k + 1] + 256 * dm.mem[2 * k + 2]
        ELSE (a % 200) + 256 * (((a \div 7) % 200) + 1)

\* a variant of ChunkLen that does not split the read
ChunkLen_Whole(length) == length

\* the size of one chunk of a read: length.min(250)
ChunkLen(length) == IF length < 250 THEN length ELSE 250

\* data with the registers regs written at byte offset off, low byte first
StoreRegs(data, off, regs) ==
    [j \in 1..Len(data) |->
        IF j > off /\ j <= off + 2 * Len(regs)
            THEN LET i == (j - off - 1) \div 2
                     reg == regs[i + 1]
                 IN  IF (j - off - 1) % 2 = 0 THEN reg % 256 ELSE reg \div 256
            ELSE data[j]]

\* a variant of MbLoopResult in which the client is never dropped
MbLoopResult_KeepClient(res, data, reqs, drop) ==
    [res |-> res, data |-> data, reqs |-> reqs, drop |-> FALSE]

MbLoopResult(res, data, reqs, drop) ==
    [res |-> res, data |-> data, reqs |-> reqs, drop |-> drop]

\* read_into(), lines 112-134: the chunk loop from (addr, length, offset) on;
\* the k-th register read from here fails when k = failAt, as `kind` says
RECURSIVE MbReadLoop(_, _, _, _, _, _, _)
MbReadLoop(addr, length, off, data, reqs, failAt, kind) ==
    IF length = 0 THEN MbLoopResult(Ok, data, reqs, FALSE)
    ELSE
        LET plen == ChunkLen(length)
            count == plen \div 2
            req == <<"read_holding_registers", addr, count>>
            regs == [i \in 1..count |-> PeerReg((addr + i - 1) % B16)]
        IN  IF failAt = 1 /\ kind = "Io"
                THEN MbLoopResult(Err(Wrapped(ModbusError("Io"), "read")),
                                  data, Append(reqs, req), TRUE)
            ELSE IF failAt = 1 \/ addr + count > B16 \/ count \notin 1..125
                THEN MbLoopResult(Err(ModbusError("Exception")), data, Append(reqs, req), FALSE)
            ELSE IF addr + count >= B16 /\ overflow_checks
                THEN MbLoopResult(Panic, StoreRegs(data, off, regs), Append(reqs, req), FALSE)
            ELSE MbReadLoop((addr + count) % B16, length - plen, off + plen,
                            StoreRegs(data, off, regs), Append(reqs, req),
                            failAt - 1, kind)

MbConnect ==
    /\ backend = "modbus" /\ Idle
    /\ Begin(OpRec("connect", USIZE(0), 0, <<>>), <<>>)
    /\ pc' = "connect" /\ depth' = 1
    /\ UNCHANGED <<fixed, dm, local, socket, client, device, source_netid, invoke_id,
                   tried_route, offset, base>>

\* connect(), line 93: the library opens the TCP connection
MbTransportNew ==
    /\ backend = "modbus" /\ pc = "connect"
    /\ \E o \in {"ok", "err"} :
        /\ trace' = Append(trace, <<"tcp_connect", 0, o>>)
        /\ IF o = "ok"
              THEN /\ local' = TRUE
                   /\ pc' = "setup"
                   /\ UNCHANGED <<depth, result>>
              ELSE /\ ConnectReturn(Err(ModbusError("Io")))
                   /\ UNCHANGED local
    /\ UNCHANGED <<fixed, dm, op, socket, client, device, source_netid, invoke_id,
                   tried_route, offset, base, comm, buf>>

\* connect(), lines 95-98: the new client is stored, the old one dropped
MbStore ==
    /\ backend = "modbus" /\ pc = "setup"
    /\ client' = Some
    /\ local' = FALSE
    /\ ConnectReturn(Ok)
    /\ UNCHANGED <<fixed, dm, op, socket, device, source_netid, invoke_id, tried_route,
                   offset, base, trace, comm, buf>>

\* a variant of MbDisconnect that also resets the base offset
MbDisconnect_ResetOffset ==
    /\ backend = "modbus" /\ Idle
    /\ Begin(OpRec("disconnect", USIZE(0), 0, <<>>), <<>>)
    /\ client' = None
    /\ offset' = USIZE(0)
    /\ UNCHANGED <<fixed, dm, pc, depth, local, socket, device, source_netid, invoke_id,
                   tried_route, base>>

\* disconnect(), line 102
MbDisconnect ==
    /\ backend = "modbus" /\ Idle
    /\ Begin(OpRec("disconnect", USIZE(0), 0, <<>>), <<>>)
    /\ client' = None
    /\ UNCHANGED <<fixed, dm, pc, depth, local, socket, device, source_netid, invoke_id,
                   tried_route, offset, base>>

MbSetOffset ==
    /\ backend = "modbus" /\ Idle
    /\ \E v \in MbOffsets :
        /\ Begin(OpRec("set_offset", v, 0, <<>>), <<>>)
        /\ offset' = v
        /\ base' = v
    /\ UNCHANGED <<fixed, dm, pc, depth, local, socket, client, device, source_netid,
                   invoke_id, tried_route>>

\* read_into(), lines 106-108
MbReadInto ==
    /\ backend = "modbus" /\ Idle
    /\ \E addr \in MbAddrs, n \in MbLens :
        Begin(OpRec("read_into", addr, n, <<>>), BufInit(n))
    /\ IF client = None THEN pc' = "connect" /\ depth' = 1
                        ELSE pc' = "request" /\ depth' = 0
    /\ UNCHANGED <<fixed, dm, local, socket, client, device, source_netid, invoke_id,
                   tried_route, offset, base>>

\* write(), lines 138-140
MbWrite ==
    /\ backend = "modbus" /\ Idle
    /\ \E addr \in MbAddrs, n \in MbLens :
        Begin(OpRec("write", addr, n, DataOf(n)), <<>>)
    /\ IF client = None THEN pc' = "connect" /\ depth' = 1
                        ELSE pc' = "request" /\ depth' = 0
    /\ UNCHANGED <<fixed, dm, local, socket, client, device, source_netid, invoke_id,
                   tried_route, offset, base>>

\* read_into(), lines 109-134
MbReadRequest ==
    /\ backend = "modbus" /\ pc = "request" /\ op.name = "read_into"
    /\ LET a == convert_addr(op.addr)
       IN  IF a.tag # "Ok"
              THEN /\ result' = a
                   /\ pc' = IF a = Panic THEN "panicked" ELSE "idle"
                   /\ UNCHANGED <<client, trace, buf>>
              ELSE \E failAt \in 0..3, kind \in {"Io", "Exception"} :
                    LET r == MbReadLoop(a.val, op.len, 0, buf, <<>>, failAt, kind)
                    IN  /\ result' = r.res
                        /\ buf' = r.data
                        /\ trace' = trace \o r.reqs
                        /\ client' = IF r.drop THEN None ELSE client
                        /\ pc' = IF r.res = Panic THEN "panicked" ELSE "idle"
    /\ UNCHANGED <<fixed, dm, op, depth, local, socket, device, source_netid, invoke_id,
                   tried_route, offset, base, comm>>

\* the registers write() packs the data into: data.len() / 2 of them
PackRegs(data) ==
    [i \in 1..(Len(data) \div 2) |-> data[2 * i - 1] + 256 * data[2 * i]]

\* write(), lines 141-155
MbWriteRequest ==
    /\ backend = "modbus" /\ pc = "request" /\ op.name = "write"
    /\ LET a == convert_addr(op.addr)
       IN  IF a.tag # "Ok"
              THEN /\ result' = a
                   /\ pc' = IF a = Panic THEN "panicked" ELSE "idle"
                   /\ UNCHANGED <<client, trace>>
              ELSE \E o \in (IF \/ a.val + Len(PackRegs(op.data)) > B16
                                 \/ Len(PackRegs(op.data)) \notin 1..123
                              THEN {"Io", "Exception"} ELSE {"ok", "Io", "Exception"}) :
                    /\ trace' = Append(trace, <<"write_multiple_registers", a.val,
                                              PackRegs(op.data)>>)
                    /\ result' = IF o = "ok" THEN Ok
                                 ELSE IF o = "Io"
                                     THEN Err(Wrapped(ModbusError("Io"), "write"))
                                 ELSE Err(ModbusError(o))
                    /\ client' = IF o = "Io" THEN None ELSE client
                    /\ pc' = "idle"
    /\ UNCHANGED <<fixed, dm, op, depth, local, socket, device, source_netid, invoke_id,
                   tried_route, offset, base, comm, buf>>

NextModbus ==
    \/ MbConnect \/ MbTransportNew \/ MbStore \/ MbDisconnect \/ MbSetOffset
    \/ MbReadInto \/ MbWrite \/ MbReadRequest \/ MbWriteRequest

-----------------------------------------------------------------------------
(* TangoProto (tango.rs).  The device proxy and the remote device are the   *)
(* environment.                                                              *)

TgAddrs == AdsAddrs

\* a byte array of m bytes as the remote device returns it
TgData(m) ==
    IF dm.pc = "read" /\ m = Len(dm.mem) THEN dm.mem ELSE [i \in 1..m |-> 64 + i]

TgConnect ==
    /\ backend = "tango" /\ Idle
    /\ Begin(OpRec("connect", USIZE(0), 0, <<>>), <<>>)
    /\ pc' = "connect" /\ depth' = 1
    /\ UNCHANGED <<fixed, dm, local, socket, client, device, source_netid, invoke_id,
                   tried_route, offset, base>>

\* connect(), line 62: DeviceProxy::new
TgProxyNew ==
    /\ backend = "tango" /\ pc = "connect"
    /\ \E o \in {"ok", "err"} :
        /\ trace' = Append(trace, <<"DeviceProxy::new", o>>)
        /\ IF o = "ok"
              THEN /\ local' = TRUE
                   /\ pc' = "setup"
                   /\ UNCHANGED <<depth, result>>
              ELSE /\ ConnectReturn(Err(TangoError))
                   /\ UNCHANGED local
    /\ UNCHANGED <<fixed, dm, op, socket, client, device, source_netid, invoke_id,
                   tried_route, offset, base, comm, buf>>

\* connect(), lines 64-76: the State command, the interface check, and the
\* new proxy stored in the field
TgSetup ==
    /\ backend = "tango" /\ pc = "setup"
    /\ local' = FALSE
    /\ \E o \in {"ok", "state_err", "bad_interface"} :
        /\ trace' = trace \o <<<<"command_inout", "State">>>>
                   \o (IF o = "state_err" THEN <<>> ELSE <<<<"command_query">>>>)
        /\ IF o = "ok"
              THEN device' = Some /\ ConnectReturn(Ok)
              ELSE /\ UNCHANGED device
                   /\ ConnectReturn(IF o = "state_err" THEN Err(TangoError)
                                    ELSE Err(TangoProtoError("Device has invalid interface")))
    /\ UNCHANGED <<fixed, dm, op, socket, client, source_netid, invoke_id, tried_route,
                   offset, base, comm, buf>>

TgDisconnect ==
    /\ backend = "tango" /\ Idle
    /\ Begin(OpRec("disconnect", USIZE(0), 0, <<>>), <<>>)
    /\ device' = None
    /\ UNCHANGED <<fixed, dm, pc, depth, local, socket, client, source_netid, invoke_id,
                   tried_route, offset, base>>

TgSetOffset ==
    /\ backend = "tango" /\ Idle
    /\ \E v \in Offsets :
        /\ Begin(OpRec("set_offset", v, 0, <<>>), <<>>)
        /\ offset' = v
        /\ base' = v
    /\ UNCHANGED <<fixed, dm, pc, depth, local, socket, client, device, source_netid,
                   invoke_id, tried_route>>

\* read_into(), lines 84-86
TgReadInto ==
    /\ backend = "tango" /\ Idle
    /\ \E addr \in TgAddrs, n \in 0..MaxLen :
        Begin(OpRec("read_into", addr, n, <<>>), BufInit(n))
    /\ IF device = None THEN pc' = "connect" /\ depth' = 1
                        ELSE pc' = "request" /\ depth' = 0
    /\ UNCHANGED <<fixed, dm, local, socket, client, device, source_netid, invoke_id,
                   tried_route, offset, base>>

\* write(), lines 102-104
TgWrite ==
    /\ backend = "tango" /\ Idle
    /\ \E addr \in TgAddrs, n \in 0..MaxLen :
        Begin(OpRec("write", addr, n, DataOf(n)), <<>>)
    /\ IF device = None THEN pc' = "connect" /\ depth' = 1
                        ELSE pc' = "request" /\ depth' = 0
    /\ UNCHANGED <<fixed, dm, local, socket, client, device, source_netid, invoke_id,
                   tried_route, offset, base>>

\* read_into(), lines 87-98: ReadInputBytes with [addr, len]; the command
\* fails, or returns a byte array of m bytes, or a value of another type
TgReadRequest ==
    /\ backend = "tango" /\ pc = "request" /\ op.name = "read_into"
    /\ LET call == <<"ReadInputBytes", <<AsU32(op.addr), op.len>>>>
       IN  \/ /\ trace' = trace \o <<call, <<"DevFailed">>>>
              /\ result' = Err(TangoError)
              /\ UNCHANGED buf
           \/ /\ trace' = trace \o <<call, <<"OtherType">>>>
              /\ result' = Err(TangoProtoError("Invalid data type or length returned"))
              /\ UNCHANGED buf
           \/ \E m \in 0..(MaxLen + 1) \cup {op.len} :
              /\ trace' = trace \o <<call, <<"CharArray", TgData(m)>>>>
              /\ buf' = IF m = op.len THEN TgData(m) ELSE buf
              /\ result' = Ok
    /\ pc' = "idle"
    /\ UNCHANGED <<fixed, dm, op, depth, local, socket, client, device, source_netid,
                   invoke_id, tried_route, offset, base, comm>>

\* write(), lines 105-110: WriteOutputBytes with [addr, data...]
TgWriteRequest ==
    /\ backend = "tango" /\ pc = "request" /\ op.name = "write"
    /\ \E o \in {"ok", "err"} :
        /\ trace' = trace \o <<<<"WriteOutputBytes", <<AsU32(op.addr)>> \o op.data>>,
                               <<IF o = "ok" THEN "Void" ELSE "DevFailed">>>>
        /\ result' = IF o = "ok" THEN Ok ELSE Err(TangoError)
    /\ pc' = "idle"
    /\ UNCHANGED <<fixed, dm, op, depth, local, socket, client, device, source_netid,
                   invoke_id, tried_route, offset, base, comm, buf>>

NextTango ==
    \/ TgConnect \/ TgProxyNew \/ TgSetup \/ TgDisconnect \/ TgSetOffset
    \/ TgReadInto \/ TgWrite \/ TgReadRequest \/ TgWriteRequest

-----------------------------------------------------------------------------
(* Io::new and detect_magic (io.rs).  The instance is moved into the Io, so *)
(* nothing else is called on it afterwards.                                  *)

\* an f32 as its sign bit, its 8 exponent bits and its 23 mantissa bits
F32Rec(sign, exp, man) == [sign |-> sign, exp |-> exp, man |-> man]

\* magic.as_bytes_mut(): the four bytes of an f32, least significant first
F32Bytes(x) ==
    <<x.man % 256, (x.man \div 256) % 256,
      (x.man \div 65536) + 128 * (x.exp % 2), (x.exp \div 2) + 128 * x.sign>>

\* the f32 that four bytes are
F32(b) ==
    F32Rec(b[4] \div 128, 2 * (b[4] % 128) + b[3] \div 128,
           (b[3] % 128) * 65536 + b[2] * 256 + b[1])

IsNaN(x) == x.exp = 255 /\ x.man # 0

\* x >= c and x <= c of f32 for a positive finite c: false for a NaN
F32Ge(x, c) ==
    /\ ~IsNaN(x)
    /\ x.sign = 0
    /\ x.exp > c.exp \/ (x.exp = c.exp /\ x.man >= c.man)
F32Le(x, c) ==
    /\ ~IsNaN(x)
    /\ \/ x.sign = 1
       \/ x.exp < c.exp
       \/ x.exp = c.exp /\ x.man <= c.man

\* the f32 values of the literals of detect_magic
F0 == F32Rec(0, 0, 0)
F2015 == F32Rec(0, 137, 8118272)
F2045 == F32Rec(0, 137, 8364032)
F2015_01 == F32Rec(0, 137, 8118354)
F2015_03 == F32Rec(0, 137, 8118518)
F2021_08 == F32Rec(0, 137, 8168079)
F2021_10 == F32Rec(0, 137, 8168243)

\* the f32 next to x, d mantissa steps away (within the binade)
F32Step(x, d) == F32Rec(x.sign, x.exp, x.man + d)

\* what the PLC may hold at a probed offset: zero, the signatures 2015.02 and
\* 2021.09, 2030.0, the bounds of every range and their neighbours, a
\* negative number and a NaN
PlcFloats ==
    {F0, F32Rec(0, 137, 8118436), F32Rec(0, 137, 8168161), F32Rec(0, 137, 8241152),
     F32Rec(1, 137, 8168161), F32Rec(0, 255, 1)}
    \cup {F32Step(c, d) : c \in {F2015, F2045, F2015_01, F2015_03, F2021_08, F2021_10},
                          d \in {-1, 0, 1}}
PlcMemory == {F32Bytes(x) : x \in PlcFloats}

GetOffsets == IF backend = "modbus" THEN <<0, 24576, 32768>> ELSE <<0>>

PlcError(msg, magic) == [kind |-> "PLC", msg |-> msg, magic |-> magic]
OkMagic(m) == [tag |-> "Ok", val |-> m]

DmOff ==
    [pc |-> "off", idx |-> 0, magic |-> <<>>, mem |-> <<>>, probes |-> <<>>,
     result |-> NoResult]

\* variants of Classify: the generations exchanged, and an unsupported
\* value skipped like one outside the outer range
Classify_Exchanged(magic) ==
    IF F32Ge(magic, F2015) /\ F32Le(magic, F2045)
        THEN IF F32Ge(magic, F2015_01) /\ F32Le(magic, F2015_03)
                THEN OkMagic("M2021_09")
             ELSE IF F32Ge(magic, F2021_08) /\ F32Le(magic, F2021_10)
                THEN OkMagic("M2015_02")
             ELSE Err(PlcError("Magic not supported", magic))
        ELSE NoResult

Classify_SkipUnsupported(magic) ==
    IF F32Ge(magic, F2015) /\ F32Le(magic, F2045)
        THEN IF F32Ge(magic, F2015_01) /\ F32Le(magic, F2015_03)
                THEN OkMagic("M2015_02")
             ELSE IF F32Ge(magic, F2021_08) /\ F32Le(magic, F2021_10)
                THEN OkMagic("M2021_09")
             ELSE NoResult
        ELSE NoResult

\* the classification of a value read successfully: a Result, or NoResult
\* when the loop goes on to the next offset
Classify(magic) ==
    IF F32Ge(magic, F2015) /\ F32Le(magic, F2045)
        THEN IF F32Ge(magic, F2015_01) /\ F32Le(magic, F2015_03)
                THEN OkMagic("M2015_02")
             ELSE IF F32Ge(magic, F2021_08) /\ F32Le(magic, F2021_10)
                THEN OkMagic("M2021_09")
             ELSE Err(PlcError("Magic not supported", magic))
        ELSE NoResult

\* a variant of ProbeOutcome that returns the error of a failed read
ProbeOutcome_ReturnError(res, magic) ==
    IF res = Ok THEN Classify(magic) ELSE res

\* detect_magic, line 53: only a read that is_ok() is looked at
ProbeOutcome(res, magic) ==
    IF res = Ok THEN Classify(magic) ELSE NoResult

\* read_into()'s test whether the backend holds no transport handle
HandleIsNone ==
    IF backend = "ads" THEN socket = None
    ELSE IF backend = "modbus" THEN client = None
    ELSE device = None

\* Io::new, line 43: proto.connect()
IoNew ==
    /\ Idle
    /\ backend = "ads" => CanStart
    /\ Begin(OpRec("connect", USIZE(0), 0, <<>>), <<>>)
    /\ pc' = "connect" /\ depth' = 1
    /\ dm' = [DmOff EXCEPT !.pc = "connect"]
    /\ UNCHANGED <<fixed, local, socket, client, device, source_netid, invoke_id,
                   tried_route, offset, base>>

\* Io::new, lines 43-45: the `?` on connect(), then detect_magic begins with
\* magic = 0f32
IoConnected ==
    /\ pc = "idle" /\ dm.pc = "connect"
    /\ dm' = IF IsErr(result)
                THEN [dm EXCEPT !.pc = "done", !.result = result]
                ELSE [dm EXCEPT !.pc = "probe", !.idx = 1, !.magic = F32Bytes(F0)]
    /\ UNCHANGED <<fixed, pc, op, depth, local, socket, client, device, source_netid,
                   invoke_id, tried_route, offset, base, trace, comm, result, buf>>

\* detect_magic, lines 52-53 and 65: the next offset of the loop and the call
\* of read_into for it, or the end of the loop
DetectMagicProbe ==
    /\ pc = "idle" /\ dm.pc = "probe"
    /\ IF dm.idx > Len(GetOffsets)
          THEN /\ dm' = [dm EXCEPT !.pc = "done",
                            !.result = Err(PlcError("No supported magic or offset found", <<>>))]
               /\ UNCHANGED <<pc, op, depth, trace, comm, result, buf>>
          ELSE /\ \E m \in PlcMemory : dm' = [dm EXCEPT !.pc = "read", !.mem = m]
               /\ Begin(OpRec("read_into", USIZE(GetOffsets[dm.idx]), 4, <<>>), dm.magic)
               /\ IF HandleIsNone THEN pc' = "connect" /\ depth' = 1
                                  ELSE pc' = "request" /\ depth' = 0
    /\ UNCHANGED <<fixed, local, socket, client, device, source_netid, invoke_id,
                   tried_route, offset, base>>

\* detect_magic, lines 53-63: the result of the read and the tests of magic
DetectMagicCheck ==
    /\ pc = "idle" /\ dm.pc = "read"
    /\ LET magic == F32(buf)
           class == ProbeOutcome(result, magic)
           log == Append(dm.probes, [offset |-> op.addr, res |-> result, magic |-> buf])
       IN  dm' = IF class = NoResult
                    THEN [dm EXCEPT !.pc = "probe", !.idx = dm.idx + 1, !.magic = buf,
                                    !.mem = <<>>, !.probes = log]
                    ELSE [dm EXCEPT !.pc = "done", !.magic = buf, !.mem = <<>>,
                                    !.probes = log, !.result = class]
    /\ UNCHANGED <<fixed, pc, op, depth, local, socket, client, device, source_netid,
                   invoke_id, tried_route, offset, base, trace, comm, result, buf>>

NextIo == IoNew \/ IoConnected \/ DetectMagicProbe \/ DetectMagicCheck

-----------------------------------------------------------------------------
(* The instance after construction (AdsProto::new, ModbusProto::new,        *)
(* TangoProto::new) and its behaviours                                      *)

Init ==
    /\ backend \in {"ads", "modbus", "tango"}
    /\ overflow_checks \in (IF backend = "modbus" THEN BOOLEAN ELSE {FALSE})
    /\ pc = "idle"
    /\ depth = 0
    /\ local = FALSE
    /\ socket = None
    /\ client = None
    /\ device = None
    /\ host_port \in (IF backend = "ads" THEN {ADS_PORT, ADS_PORT + 1} ELSE {0})
    /\ target_netid = <<5, 53, 35, 202, 1, 1>>
    /\ target_port = 851
    /\ source_netid = <<0, 0, 0, 0, 0, 0>>
    /\ invoke_id = <<0, 0>>
    /\ tried_route = FALSE
    /\ op = [name |-> "new", addr |-> USIZE(0), len |-> 0, data |-> <<>>, tried |-> FALSE]
    /\ offset = USIZE(0)
    /\ base = USIZE(0)
    /\ trace = <<>>
    /\ comm = NoComm
    /\ result = NoResult
    /\ buf = <<>>
    /\ dm = DmOff

Next == NextAds \/ NextModbus \/ NextTango \/ NextIo

Spec == Init /\ [][Next]_vars

-----------------------------------------------------------------------------
(* find_ads_error on its own: one call with a code drawn from the codes of  *)
(* the catalog, their neighbours, and codes far from all of them, up to    *)
(* 2^31 - 1                                                                 *)

ErrorCodes ==
    UNION {{ADS_ERRORS[i][1] - 1, ADS_ERRORS[i][1], ADS_ERRORS[i][1] + 1} :
                i \in 1..Len(ADS_ERRORS)}
    \cup {0, B16 - 1, B16, B16 + 1, B16 * (B16 \div 2 - 1) + B16 - 1}

InitErrors ==
    /\ backend = "ads"
    /\ overflow_checks = FALSE
    /\ pc = "call"
    /\ depth = 0
    /\ local = FALSE
    /\ socket = None
    /\ client = None
    /\ device = None
    /\ host_port = ADS_PORT
    /\ target_netid = <<5, 53, 35, 202, 1, 1>>
    /\ target_port = 851
    /\ source_netid = <<0, 0, 0, 0, 0, 0>>
    /\ invoke_id = <<0, 0>>
    /\ tried_route = FALSE
    /\ \E c \in ErrorCodes :
        op = [name |-> "find_ads_error", addr |-> USIZE(0), len |-> 0, data |-> <<c>>,
              tried |-> FALSE]
    /\ offset = USIZE(0)
    /\ base = USIZE(0)
    /\ trace = <<>>
    /\ comm = NoComm
    /\ result = NoResult
    /\ buf = <<>>
    /\ dm = DmOff

FindAdsError ==
    /\ pc = "call" /\ op.name = "find_ads_error"
    /\ result' = find_ads_error(op.data[1])
    /\ pc' = "idle"
    /\ UNCHANGED <<fixed, dm, op, depth, local, socket, client, device, source_netid,
                   invoke_id, tried_route, offset, base, trace, comm, buf>>

NextErrors == FindAdsError

SpecErrors == InitErrors /\ [][NextErrors]_vars

-----------------------------------------------------------------------------
(* Address strings and the regular expressions of the constructors.  A      *)
(* string is a sequence of characters; a regular expression is a tree, and  *)
(* Ends gives every position a match of it can end at.                      *)

Digits == {"0", "1", "2", "3", "4", "5", "6", "7", "8", "9"}
Letters ==
    {"a", "b", "c", "d", "e", "f", "g", "h", "i", "j", "k", "l", "m", "n", "o", "p",
     "q", "r", "s", "t", "u", "v", "w", "x", "y", "z"}
\* \w of the regex crate, as far as the characters of the model go
WordChars == Digits \cup Letters \cup {"_"}

Lit(c) == [t |-> "lit", c |-> c]
AnyChar == [t |-> "any"]
Class(S) == [t |-> "class", s |-> S]
Concat(rs) == [t |-> "seq", rs |-> rs]
Plus(r) == [t |-> "plus", r |-> r]
Opt(r) == [t |-> "opt", r |-> r]
Alt(r1, r2) == [t |-> "alt", r1 |-> r1, r2 |-> r2]
EndOfText == [t |-> "end"]
Str(chars) == Concat([i \in 1..Len(chars) |-> Lit(chars[i])])

\* the positions after the matches of re in s that begin at a position of I
RECURSIVE Ends(_, _, _)
RECURSIVE EndsSeq(_, _, _)
Ends(re, s, I) ==
    CASE re.t = "lit" -> {i + 1 : i \in {j \in I : j <= Len(s) /\ s[j] = re.c}}
      [] re.t = "any" -> {i + 1 : i \in {j \in I : j <= Len(s) /\ s[j] # "\n"}}
      [] re.t = "class" -> {i + 1 : i \in {j \in I : j <= Len(s) /\ s[j] \in re.s}}
      [] re.t = "seq" -> EndsSeq(re.rs, s, I)
      [] re.t = "plus" -> LET E == Ends(re.r, s, I)
                          IN  IF E = {} THEN {} ELSE E \cup Ends(re, s, E \ I)
      [] re.t = "opt" -> I \cup Ends(re.r, s, I)
      [] re.t = "alt" -> Ends(re.r1, s, I) \cup Ends(re.r2, s, I)
      [] re.t = "end" -> I \cap {Len(s) + 1}
EndsSeq(rs, s, I) ==
    IF rs = <<>> \/ I = {} THEN I
    ELSE EndsSeq(Tail(rs), s, Ends(Head(rs), s, I))

Min(S) == CHOOSE x \in S : \A y \in S : x <= y
Max(S) == CHOOSE x \in S : \A y \in S : x >= y

\* Regex::captures for an expression `prefix(.+?)tail`: the search finds the
\* leftmost position a match begins at, and the lazy group takes the fewest
\* characters with which the tail matches.  NoMatch, or where the prefix
\* ends (from) and where the tail begins (to): the group is s[from .. to-1].
NoMatch == [found |-> FALSE]
LazyGroupEnds(s, from, tail) ==
    {h \in (from + 1)..(Len(s) + 1) :
        /\ \A j \in from..(h - 1) : s[j] # "\n"
        /\ Ends(tail, s, {h}) # {}}
MatchStarts(s, prefix, tail) ==
    {i \in 1..Len(s) : \E p \in Ends(prefix, s, {i}) : LazyGroupEnds(s, p, tail) # {}}
Captures(s, prefix, tail) ==
    IF MatchStarts(s, prefix, tail) = {} THEN NoMatch
    ELSE LET i == Min(MatchStarts(s, prefix, tail))
             p == CHOOSE q \in Ends(prefix, s, {i}) : TRUE
         IN  [found |-> TRUE, from |-> p, to |-> Min(LazyGroupEnds(s, p, tail))]

\* str::contains, str::splitn(2, c) and str::split(c) for a character c
Contains(s, c) == \E i \in 1..Len(s) : s[i] = c
FirstIndex(s, c) == Min({i \in 1..Len(s) : s[i] = c})
RECURSIVE Split(_, _)
Split(s, c) ==
    IF ~Contains(s, c) THEN <<s>>
    ELSE <<SubSeq(s, 1, FirstIndex(s, c) - 1)>>
            \o Split(SubSeq(s, FirstIndex(s, c) + 1, Len(s)), c)

DigitValue(c) == CHOOSE v \in 0..9 : <<"0", "1", "2", "3", "4", "5", "6", "7", "8", "9">>[v + 1] = c

\* str::parse for an unsigned integer type with maximum max: an optional
\* "+", then digits, at least one; a value above max is an error
RECURSIVE ParseDigits(_, _, _)
ParseDigits(s, acc, max) ==
    IF s = <<>> THEN [tag |-> "Ok", val |-> acc]
    ELSE IF Head(s) \notin Digits THEN [tag |-> "Err"]
    ELSE IF 10 * acc + DigitValue(Head(s)) > max THEN [tag |-> "Err"]
    ELSE ParseDigits(Tail(s), 10 * acc + DigitValue(Head(s)), max)
ParseUnsigned(s, max) ==
    LET d == IF s # <<>> /\ Head(s) = "+" THEN Tail(s) ELSE s
    IN  IF d = <<>> THEN [tag |-> "Err"] ELSE ParseDigits(d, 0, max)
U8_MAX == 255
U16_MAX == 65535

InvalidAddress(fmt) == [kind |-> "InvalidAddress", fmt |-> fmt]

-----------------------------------------------------------------------------
(* AdsProto::new (ads.rs) *)

D == Class(Digits)

\* ADS_ADDR_RE: ads://(.+?)/(\d+.\d+.\d+.\d+(.\d+.\d+)?):(\d+)$, as the text
\* before the lazy group, group 2, and everything after the lazy group
ADS_ADDR_PREFIX == Str(<<"a", "d", "s", ":", "/", "/">>)
ADS_ADDR_NETID ==
    Concat(<<Plus(D), AnyChar, Plus(D), AnyChar, Plus(D), AnyChar, Plus(D),
             Opt(Concat(<<AnyChar, Plus(D), AnyChar, Plus(D)>>))>>)
ADS_ADDR_PORT == Concat(<<Lit(":"), Plus(D), EndOfText>>)
ADS_ADDR_TAIL == Concat(<<Lit("/"), ADS_ADDR_NETID, ADS_ADDR_PORT>>)
ADS_ADDR_FMT == "ads://host[:port]/amsnetid:amsport"

\* a variant of NetIdOf that pads a 4-octet network id with zeros
NetIdOf_ZeroPadded(octets) ==
    IF Len(octets) = 6 THEN [tag |-> "Ok", val |-> octets]
    ELSE IF Len(octets) = 4 THEN [tag |-> "Ok", val |-> octets \o <<0, 0>>]
    ELSE [tag |-> "Err"]

\* new(), lines 81-87: the network id of the octets
NetIdOf(octets) ==
    IF Len(octets) = 6 THEN [tag |-> "Ok", val |-> octets]
    ELSE IF Len(octets) = 4 THEN [tag |-> "Ok", val |-> octets \o <<1, 1>>]
    ELSE [tag |-> "Err"]

AdsInstance(host, port, netid, amsport) ==
    [host |-> host, port |-> port, target_netid |-> netid, target_port |-> amsport,
     source_netid |-> <<0, 0, 0, 0, 0, 0>>, invoke_id |-> <<0, 0>>,
     tried_route |-> FALSE, socket |-> None]

\* AdsProto::new(addr)
AdsProtoNew(addr) ==
    LET caps == Captures(addr, ADS_ADDR_PREFIX, ADS_ADDR_TAIL)
        err == Err(InvalidAddress(ADS_ADDR_FMT))
    IN  IF ~caps.found THEN err
        ELSE
        LET caps1 == SubSeq(addr, caps.from, caps.to - 1)
            \* group 2 ends where the ":" of the AMS port stands
            colon == CHOOSE n \in (caps.to + 1)..Len(addr) :
                        /\ n \in Ends(ADS_ADDR_NETID, addr, {caps.to + 1})
                        /\ Ends(ADS_ADDR_PORT, addr, {n}) # {}
            caps2 == SubSeq(addr, caps.to + 1, colon - 1)
            caps4 == SubSeq(addr, colon + 1, Len(addr))
            hasPort == Contains(caps1, ":")
            host == IF hasPort THEN SubSeq(caps1, 1, FirstIndex(caps1, ":") - 1) ELSE caps1
            port == IF hasPort
                        THEN ParseUnsigned(SubSeq(caps1, FirstIndex(caps1, ":") + 1,
                                                  Len(caps1)), U16_MAX)
                        ELSE [tag |-> "Ok", val |-> ADS_PORT]
            fields == Split(caps2, ".")
            parsed == [i \in 1..Len(fields) |-> ParseUnsigned(fields[i], U8_MAX)]
            octets == [i \in 1..Len(fields) |-> parsed[i].val]
            amsport == ParseUnsigned(caps4, U16_MAX)
        IN  IF port.tag # "Ok" THEN err
            ELSE IF \E i \in 1..Len(fields) : parsed[i].tag # "Ok" THEN err
            ELSE IF NetIdOf(octets).tag # "Ok" THEN err
            ELSE IF amsport.tag # "Ok" THEN err
            ELSE [tag |-> "Ok",
                  val |-> AdsInstance(host, port.val, NetIdOf(octets).val, amsport.val)]

-----------------------------------------------------------------------------
(* ModbusProto::new (modbus.rs) *)

\* MB_ADDR_RE: modbus://(.+?)(?::(\d+))?(?:/(\d+)?)?$
MB_ADDR_PREFIX == Str(<<"m", "o", "d", "b", "u", "s", ":", "/", "/">>)
MB_ADDR_PORT == Concat(<<Lit(":"), Plus(D)>>)
MB_ADDR_SLAVE == Concat(<<Opt(Concat(<<Lit("/"), Opt(Plus(D))>>)), EndOfText>>)
MB_ADDR_TAIL == Concat(<<Opt(MB_ADDR_PORT), MB_ADDR_SLAVE>>)
MB_ADDR_FMT == "modbus://host[:port]/slave"
MB_PORT == 502

ModbusInstance(host, port, slave) ==
    [host |-> host, tcp_port |-> port, modbus_uid |-> slave, offset |-> USIZE(0),
     client |-> None]

\* ModbusProto::new(addr)
ModbusProtoNew(addr) ==
    LET caps == Captures(addr, MB_ADDR_PREFIX, MB_ADDR_TAIL)
        err == Err(InvalidAddress(MB_ADDR_FMT))
    IN  IF ~caps.found THEN err
        ELSE
        LET host == SubSeq(addr, caps.from, caps.to - 1)
            \* group 2 takes part (a greedy `?`) whenever the rest then matches
            portEnds == {e \in Ends(MB_ADDR_PORT, addr, {caps.to}) :
                            Ends(MB_ADDR_SLAVE, addr, {e}) # {}}
            hasPort == portEnds # {}
            afterPort == IF hasPort THEN Max(portEnds) ELSE caps.to
            port == IF hasPort
                        THEN ParseUnsigned(SubSeq(addr, caps.to + 1, afterPort - 1), U16_MAX)
                        ELSE [tag |-> "Ok", val |-> MB_PORT]
            hasSlave == afterPort < Len(addr)
            slave == IF hasSlave
                        THEN ParseUnsigned(SubSeq(addr, afterPort + 1, Len(addr)), U8_MAX)
                        ELSE [tag |-> "Ok", val |-> 0]
        IN  IF port.tag # "Ok" THEN err
            ELSE IF slave.tag # "Ok" THEN err
            ELSE [tag |-> "Ok", val |-> ModbusInstance(host, port.val, slave.val)]

-----------------------------------------------------------------------------
(* TangoProto::new (tango.rs) *)

\* TG_ADDR_RE: tango://([\w.-]+:[\d]+/)?([\w-]+/){2}[\w-]+(#dbase=(no|yes))?$
TG_NAME == Plus(Class(WordChars \cup {"-"}))
TG_ADDR_RE ==
    Concat(<<Str(<<"t", "a", "n", "g", "o", ":", "/", "/">>),
             Opt(Concat(<<Plus(Class(WordChars \cup {".", "-"})), Lit(":"), Plus(D), Lit("/")>>)),
             Concat(<<TG_NAME, Lit("/")>>), Concat(<<TG_NAME, Lit("/")>>), TG_NAME,
             Opt(Concat(<<Str(<<"#", "d", "b", "a", "s", "e", "=">>), Alt(Str(<<"n", "o">>), Str(<<"y", "e", "s">>))>>)),
             EndOfText>>)
TG_ADDR_FMT == "tango://[database:port/]domain/family/member[#dbase=no]"

\* Regex::is_match: a match may begin anywhere
IsMatch(re, s) == \E i \in 1..(Len(s) + 1) : Ends(re, s, {i}) # {}

TangoInstance(addr) == [tango_dev |-> addr, offset |-> USIZE(0), device |-> None]

\* TangoProto::new(addr)
TangoProtoNew(addr) ==
    IF ~IsMatch(TG_ADDR_RE, addr) THEN Err(InvalidAddress(TG_ADDR_FMT))
    ELSE [tag |-> "Ok", val |-> TangoInstance(addr)]

-----------------------------------------------------------------------------
(* The constructors on their own: one call of new() with an address string  *)
(* put together from parts, well-formed ones and ones with a defect          *)

\* a numeric field of an address: left out, a number, or text that is none
Absent == [kind |-> "absent"]
Num(n) == [kind |-> "num", n |-> n]
Text == [kind |-> "text"]

\* the decimal digits of a natural number
RECURSIVE Dec(_)
Dec(n) ==
    IF n < 10 THEN <<<<"0", "1", "2", "3", "4", "5", "6", "7", "8", "9">>[n + 1]>>
    ELSE Append(Dec(n \div 10), <<"0", "1", "2", "3", "4", "5", "6", "7", "8", "9">>[(n % 10) + 1])

\* how a field is written
Field(f) == IF f.kind = "num" THEN Dec(f.n) ELSE IF f.kind = "text" THEN <<"x">> ELSE <<>>
\* a field after a separator, nothing when the field is left out
SepField(sep, f) == IF f.kind = "absent" THEN <<>> ELSE sep \o Field(f)

RECURSIVE Join(_, _)
Join(fields, sep) ==
    IF fields = <<>> THEN <<>>
    ELSE IF Len(fields) = 1 THEN fields[1]
    ELSE fields[1] \o sep \o Join(Tail(fields), sep)

Hosts == {<<"h">>, <<"1", "0", ".", "0", ".", "0", ".", "7">>}

AdsAddrParts ==
    [scheme : BOOLEAN,
     host : Hosts,
     port : {Absent, Num(1), Num(48898), Num(65535), Num(65536), Text},
     octets : {<<5, 53, 35, 202>>, <<5, 53, 35, 202, 1, 1>>, <<0, 255, 10, 7, 9, 0>>,
               <<100, 200, 30>>, <<1, 2, 3, 4, 5>>, <<5, 53, 35, 256>>,
               <<1, 2, 3, 4, 5, 6, 7>>},
     ams : {Num(0), Num(851), Num(65535), Num(65536), Text}]
AdsAddr(p) ==
    (IF p.scheme THEN <<"a", "d", "s", ":", "/", "/">> ELSE <<>>) \o p.host \o SepField(<<":">>, p.port)
        \o <<"/">> \o Join([i \in 1..Len(p.octets) |-> Dec(p.octets[i])], <<".">>)
        \o <<":">> \o Field(p.ams)

MbAddrParts ==
    [scheme : BOOLEAN,
     host : Hosts,
     port : {Absent, Num(502), Num(65535), Num(65536), Text},
     slave : {Absent, Num(0), Num(255), Num(256)}]
MbAddr(p) ==
    (IF p.scheme THEN <<"m", "o", "d", "b", "u", "s", ":", "/", "/">> ELSE <<>>) \o p.host \o SepField(<<":">>, p.port)
        \o SepField(<<"/">>, p.slave)

TgAddrParts ==
    [scheme : BOOLEAN,
     db : {Absent, Num(10000), Text},
     names : {<<<<"d", "o", "m">>, <<"f", "a", "m">>>>, <<<<"d", "o", "m">>, <<"f", "a", "m">>, <<"m", "e", "m", "-", "1">>>>, <<<<"d", "o", "m">>, <<"f", "a", "m">>, <<"m", "e", "m", "-", "1">>, <<"d", "o", "m">>>>},
     dbase : {<<>>, <<"n", "o">>, <<"y", "e", "s">>, <<"m", "a", "y", "b", "e">>}]
TgAddr(p) ==
    (IF p.scheme THEN <<"t", "a", "n", "g", "o", ":", "/", "/">> ELSE <<>>)
        \o (IF p.db.kind = "absent" THEN <<>> ELSE <<"d", "b", ".", "x", ":">> \o Field(p.db) \o <<"/">>)
        \o Join(p.names, <<"/">>)
        \o (IF p.dbase = <<>> THEN <<>> ELSE <<"#", "d", "b", "a", "s", "e", "=">> \o p.dbase)

AddrParts ==
    IF backend = "ads" THEN AdsAddrParts
    ELSE IF backend = "modbus" THEN MbAddrParts
    ELSE TgAddrParts
AddrOf(p) ==
    IF backend = "ads" THEN AdsAddr(p)
    ELSE IF backend = "modbus" THEN MbAddr(p)
    ELSE TgAddr(p)

InitNew ==
    /\ backend \in {"ads", "modbus", "tango"}
    /\ overflow_checks = FALSE
    /\ pc = "call"
    /\ depth = 0
    /\ local = FALSE
    /\ socket = None
    /\ client = None
    /\ device = None
    /\ host_port = 0
    /\ target_netid = <<>>
    /\ target_port = 0
    /\ source_netid = <<0, 0, 0, 0, 0, 0>>
    /\ invoke_id = <<0, 0>>
    /\ tried_route = FALSE
    /\ \E p \in AddrParts :
        op = [name |-> "new", addr |-> USIZE(0), len |-> 0, data |-> AddrOf(p),
              tried |-> FALSE, parts |-> p]
    /\ offset = USIZE(0)
    /\ base = USIZE(0)
    /\ trace = <<>>
    /\ comm = NoComm
    /\ result = NoResult
    /\ buf = <<>>
    /\ dm = DmOff

AdsNew ==
    /\ backend = "ads" /\ pc = "call" /\ op.name = "new"
    /\ LET r == AdsProtoNew(op.data)
       IN  /\ result' = r
           /\ IF r.tag = "Ok"
                 THEN /\ host_port' = r.val.port
                      /\ target_netid' = r.val.target_netid
                      /\ target_port' = r.val.target_port
                 ELSE UNCHANGED <<host_port, target_netid, target_port>>
    /\ pc' = "idle"
    /\ UNCHANGED <<backend, overflow_checks, dm, op, depth, local, socket, client, device,
                   source_netid, invoke_id, tried_route, offset, base, trace, comm, buf>>

ModbusNew ==
    /\ backend = "modbus" /\ pc = "call" /\ op.name = "new"
    /\ result' = ModbusProtoNew(op.data)
    /\ pc' = "idle"
    /\ UNCHANGED <<fixed, dm, op, depth, local, socket, client, device, source_netid,
                   invoke_id, tried_route, offset, base, trace, comm, buf>>

TangoNew ==
    /\ backend = "tango" /\ pc = "call" /\ op.name = "new"
    /\ result' = TangoProtoNew(op.data)
    /\ pc' = "idle"
    /\ UNCHANGED <<fixed, dm, op, depth, local, socket, client, device, source_netid,
                   invoke_id, tried_route, offset, base, trace, comm, buf>>

NextNew == AdsNew \/ ModbusNew \/ TangoNew

SpecNew == InitNew /\ [][NextNew]_vars

-----------------------------------------------------------------------------
(* An AdsProto instance late in its life: 2^32 - 1 requests were made and    *)
(* the last call was a disconnect().  Next to it, the new instance.          *)

InitAged ==
    /\ backend = "ads"
    /\ overflow_checks = FALSE
    /\ pc = "idle"
    /\ depth = 0
    /\ local = FALSE
    /\ socket = None
    /\ client = None
    /\ device = None
    /\ host_port \in {ADS_PORT, ADS_PORT + 1}
    /\ target_netid = <<5, 53, 35, 202, 1, 1>>
    /\ target_port = 851
    /\ \/ /\ source_netid = <<0, 0, 0, 0, 0, 0>>
          /\ invoke_id = <<0, 0>>
          /\ tried_route = FALSE
          /\ op = [name |-> "new", addr |-> USIZE(0), len |-> 0, data |-> <<>>,
                   tried |-> FALSE]
       \/ /\ source_netid = <<10, 0, 0, 7, 1, 1>>
          /\ invoke_id = <<B16 - 1, B16 - 1>>
          /\ tried_route = FALSE
          /\ op = [name |-> "disconnect", addr |-> USIZE(0), len |-> 0, data |-> <<>>,
                   tried |-> FALSE]
    /\ offset = USIZE(0)
    /\ base = USIZE(0)
    /\ trace = <<>>
    /\ comm = NoComm
    /\ result = NoResult
    /\ buf = <<>>
    /\ dm = DmOff

SpecAged == InitAged /\ [][NextAds]_vars
-----------------------------------------------------------------------------
(* Observations used by the properties *)

\* the events of the current call's trace of one kind
Events(kind) == SelectSeq(trace, LAMBDA e : e[1] = kind)
Count(kind) == Len(Events(kind))

\* a caller's call has returned (or panicked) and nothing else has begun
Returned == pc = "idle" \/ pc = "panicked"

IsReadWrite == op.name = "read_into" \/ op.name = "write"

\* the last call was a read_into / write of the ADS backend that got as far
\* as its own communicate()
AdsRequested ==
    /\ backend = "ads" /\ pc = "idle" /\ IsReadWrite
    /\ comm.cmd = (IF op.name = "read_into" THEN ADS_READ ELSE ADS_WRITE)

\* the size communicate() expects after the reply header: the result word and
\* the outputs of the command
ExpectedDataLength ==
    4 + (IF comm.cmd = ADS_DEVINFO THEN SizeOfAdsDevInfo
         ELSE IF comm.cmd = ADS_READ THEN 4 + op.len
         ELSE 0)

\* the requests a read_into / write of the register or device-proxy backend
\* made, without the events of a reconnect before them
RequestTrace ==
    SelectSeq(trace, LAMBDA e : e[1] \in {"read_holding_registers",
                  "write_multiple_registers", "ReadInputBytes", "WriteOutputBytes"})

\* the peer addresses in the requests the last read_into / write sent, in order
RequestAddrs ==
    IF backend = "ads"
        THEN IF comm.cmd \in {ADS_READ, ADS_WRITE} /\ Len(comm.sent) >= 2
                THEN <<comm.sent[2][2].address>> ELSE <<>>
    ELSE IF backend = "modbus"
        THEN [i \in 1..Len(RequestTrace) |-> RequestTrace[i][2]]
    ELSE [i \in 1..Len(RequestTrace) |-> RequestTrace[i][2][1]]

-----------------------------------------------------------------------------
(* C1 *)

EofResult == Err(IoError("UnexpectedEof"))

\* a connect() call on the default port, begun with the one-shot flag unset,
\* has returned, and every attempt in it got to the handshake, which failed
\* with unexpected end-of-stream
C1_Scenario ==
    /\ backend = "ads" /\ pc = "idle" /\ op.name = "connect"
    /\ host_port = ADS_PORT
    /\ ~op.tried
    /\ Count("handshake") >= 1
    /\ Count("handshake") = Count("tcp_connect")
    /\ Count("resolve") = 0 /\ Count("setup") = 0
    /\ \A i \in 1..Count("handshake") : Events("handshake")[i][2] = EofResult

\* C1: a connect() on the default port whose handshake fails with unexpected
\* end-of-stream on every attempt provisions the route exactly once, opens the
\* TCP connection exactly twice and returns the failure of the second attempt;
\* connect() is never nested deeper than one retry.
C1_RouteRetryOnce ==
    /\ backend = "ads" => depth <= 2 /\ Count("set_route") <= 1
    /\ C1_Scenario =>
        /\ Count("set_route") = 1
        /\ Count("tcp_connect") = 2
        /\ Count("handshake") = 2
        /\ trace[Len(trace)] = <<"handshake", result>>
        /\ result = EofResult

C1_Witness ==
    /\ C1_Scenario
    /\ Count("set_route") = 1
    /\ Count("udp") = 2
    /\ result = EofResult

-----------------------------------------------------------------------------
(* C2 *)

\* C2 (as claimed): whenever read_into or write of the ADS backend returns an
\* error, also one raised by the reconnect inside it, socket is None on return.
C2_NoHandleAfterError ==
    (backend = "ads" /\ pc = "idle" /\ IsReadWrite /\ IsErr(result))
        => socket = None

-----------------------------------------------------------------------------
(* C3 *)

\* the reply of the last communicate() fails the check of ...
BadFlags == comm.reply.state_flags # RESPONSE_FLAGS
BadLength == comm.reply.data_length # ExpectedDataLength
BadErrorCode == comm.reply.error_code # 0
BadInvokeId == comm.reply.invoke_id # comm.hdr.invoke_id
BadResult == comm.reply.result # 0

IsAdsErr(r, code) == IsErr(r) /\ r.err.kind = "ADS" /\ r.err.code = U32(code)

\* C3: communicate() reports the first failing check of the reply in the
\* order state-flags, data-length, error-code, invoke-id, result, and reads
\* no output payload bytes unless every check passes.
C3_FirstFailingCheck ==
    comm.got =>
        /\ BadFlags =>
            comm.res = Err(AdsError("unexpected state flags", U32(comm.reply.state_flags)))
        /\ (~BadFlags /\ BadLength) =>
            comm.res = Err(AdsError("unexpected data length", U32(comm.reply.data_length)))
        /\ (~BadFlags /\ ~BadLength /\ BadErrorCode) =>
            /\ IsAdsErr(comm.res, comm.reply.error_code)
            /\ comm.res.err.msg \notin {"unexpected state flags", "unexpected data length",
                                        "invoke ID not matching"}
        /\ (~BadFlags /\ ~BadLength /\ ~BadErrorCode /\ BadInvokeId) =>
            comm.res = Err(AdsError("invoke ID not matching", comm.reply.invoke_id))
        /\ (~BadFlags /\ ~BadLength /\ ~BadErrorCode /\ ~BadInvokeId /\ BadResult) =>
            /\ IsAdsErr(comm.res, comm.reply.result)
            /\ comm.res.err.msg \notin {"unexpected state flags", "unexpected data length",
                                        "invoke ID not matching"}
        /\ (BadFlags \/ BadLength \/ BadErrorCode \/ BadInvokeId \/ BadResult) =>
            /\ IsErr(comm.res)
            /\ comm.out = <<>> /\ comm.out2 = <<>>

\* a reply failing the error-code, the invoke-id and the result check at once,
\* with payload bytes behind it, is reported as the error code's error
C3_Witness ==
    /\ comm.got
    /\ ~BadFlags /\ ~BadLength /\ BadErrorCode /\ BadInvokeId /\ BadResult
    /\ Len(comm.avail) > 0
    /\ IsAdsErr(comm.res, comm.reply.error_code)
    /\ comm.out2 = <<>>

-----------------------------------------------------------------------------
(* C4 *)

\* C4: a reply whose invoke-id differs from the request's makes communicate()
\* return an error whatever the other fields are, and the invoke-id mismatch
\* error when state-flags, data-length and error-code are well-formed.
C4_InvokeIdMismatchRejected ==
    (comm.got /\ BadInvokeId) =>
        /\ IsErr(comm.res)
        /\ (~BadFlags /\ ~BadLength /\ ~BadErrorCode) =>
            comm.res = Err(AdsError("invoke ID not matching", comm.reply.invoke_id))
        /\ (pc = "idle" /\ (op.name = "connect" \/ IsReadWrite)) => IsErr(result)

C4_Witness ==
    /\ AdsRequested /\ op.name = "read_into"
    /\ comm.got /\ BadInvokeId
    /\ ~BadFlags /\ ~BadLength /\ ~BadErrorCode /\ ~BadResult
    /\ result = Err(Wrapped(AdsError("invoke ID not matching", comm.reply.invoke_id), "read"))

-----------------------------------------------------------------------------
(* C5 *)

\* C5 (as claimed): a write puts the header, the (index-group, address, length)
\* payload and then the data bytes on the wire; a write that returns Ok has
\* transmitted the data bytes.
C5_WriteSendsData ==
    (AdsRequested /\ op.name = "write" /\ result = Ok) =>
        comm.sent = <<<<"header", comm.hdr>>, <<"data", AdsDataAddr(op.addr, op.len)>>>>
                    \o (IF op.len > 0 THEN <<<<"data", op.data>>>> ELSE <<>>)

-----------------------------------------------------------------------------
(* C6 *)

\* C6 (as claimed): an error of communicate() inside read_into is returned as
\* Wrapped(error, "read"), one inside write as Wrapped(error, "write").
C6_WrappedWithOperationName ==
    (AdsRequested /\ IsErr(comm.res)) =>
        result = Err(Wrapped(comm.res.err,
                             IF op.name = "read_into" THEN "read" ELSE "write"))

-----------------------------------------------------------------------------
(* C7 *)

\* the peer answered the last read with a reply that passes the flag, invoke-id,
\* error-code and result checks and put a 4-byte length and n bytes behind it
ReadAnswered ==
    /\ AdsRequested /\ op.name = "read_into"
    /\ comm.got
    /\ ~BadFlags /\ ~BadInvokeId /\ ~BadErrorCode /\ ~BadResult
    /\ Len(comm.avail) = 4 + op.len

PeerPayload == SubSeq(comm.avail, 5, 4 + op.len)

\* C7 (as claimed): a well-formed reply with data-length n + 4 makes read_into
\* return Ok with the n payload bytes in the buffer.
C7_RoundTripLengthPlus4 ==
    (ReadAnswered /\ comm.reply.data_length = op.len + 4) =>
        result = Ok /\ buf = PeerPayload

\* C7 (amended): a well-formed reply with data-length n + 8 (the result word,
\* the 4-byte length and the n payload bytes) makes read_into return Ok with
\* exactly the n payload bytes of the peer in the buffer, in order.
C7_RoundTrip ==
    (ReadAnswered /\ comm.reply.data_length = op.len + 8) =>
        result = Ok /\ buf = PeerPayload

C7_Witness ==
    /\ ReadAnswered /\ comm.reply.data_length = op.len + 8
    /\ op.len = MaxLen
    /\ result = Ok
    /\ buf = PeerPayload
    /\ buf # BufInit(op.len)
    /\ buf[1] # buf[op.len]

-----------------------------------------------------------------------------
(* C8 *)

\* base + addr, and whether it fits the native address width of the backend
Target == AddUsize(base, op.addr)
TargetFits ==
    /\ ~Target.overflow
    /\ IF backend = "modbus"
          THEN /\ FitsU16(HalfUsize(Target.val))
               /\ HalfUsize(Target.val)[1] + 125 * ((IF op.len > 0 THEN op.len - 1 ELSE 0) \div 250) < B16
          ELSE FitsU32(Target.val)

\* the peer address of base + addr in the native unit of the backend
NativeTarget ==
    IF backend = "modbus" THEN HalfUsize(Target.val)[1] ELSE AsU32(Target.val)

\* C8 (as claimed): after set_offset(v) every read_into(a) / write(a) of every
\* backend addresses the peer at v + a, in the backend's native unit.
C8_OffsetAdded ==
    (pc = "idle" /\ IsReadWrite /\ TargetFits /\ Len(RequestAddrs) > 0) =>
        RequestAddrs[1] = NativeTarget

-----------------------------------------------------------------------------
(* C9 *)

\* each request sent carries the true address of its chunk: the address of
\* base + addr (plus 125 registers per earlier chunk), which fits the width
TrueAddrsOnly ==
    IF backend = "modbus"
        THEN IF Target.overflow \/ ~FitsU16(HalfUsize(Target.val))
                THEN RequestAddrs = <<>>
                ELSE \A i \in 1..Len(RequestAddrs) :
                        /\ HalfUsize(Target.val)[1] + 125 * (i - 1) < B16
                        /\ RequestAddrs[i] = HalfUsize(Target.val)[1] + 125 * (i - 1)
        ELSE RequestAddrs = <<>>

\* C9 (as claimed): a read_into / write whose base + addr (or the address of
\* a later chunk) does not fit the native address width returns an error: it
\* does not panic and sends no request with a truncated or wrapped address.
C9_OverflowIsError ==
    (Returned /\ IsReadWrite /\ ~TargetFits) =>
        IsErr(result) /\ TrueAddrsOnly

-----------------------------------------------------------------------------
(* C10 *)

\* transport objects of the instance that are open: the one in the field and
\* the one connect() has created and not yet stored
HandleField ==
    IF backend = "ads" THEN socket ELSE IF backend = "modbus" THEN client ELSE device
LiveHandles == (IF HandleField = Some THEN 1 ELSE 0) + (IF local THEN 1 ELSE 0)

\* C10 (as claimed): in every state, also inside connect(), at most one live
\* transport handle exists for the instance.
C10_AtMostOneHandle == LiveHandles <= 1


-----------------------------------------------------------------------------
(* C11 *)

RECURSIVE SumCounts(_)
SumCounts(reqs) ==
    IF reqs = <<>> THEN 0 ELSE reqs[1][3] + SumCounts(Tail(reqs))

\* the bytes the requests of the last register-transport call carried:
\* two per register read or written
MbBytesTransferred ==
    IF op.name = "read_into" THEN 2 * SumCounts(RequestTrace)
    ELSE IF RequestTrace = <<>> THEN 0
    ELSE 2 * Len(RequestTrace[1][3])

\* C11 (as claimed): a register-transport read_into that returns Ok has
\* overwritten all n bytes of the buffer with peer data, and a write that
\* returns Ok has sent all n bytes, for even and for odd n.
C11_ModbusWholeBuffer ==
    (backend = "modbus" /\ Returned /\ IsReadWrite /\ result = Ok) =>
        /\ MbBytesTransferred = op.len
        /\ op.name = "read_into" => \A j \in 1..op.len : buf[j] # BufInit(op.len)[j]

-----------------------------------------------------------------------------
(* C12 *)

\* the value the remote device returned for the last ReadInputBytes command
TgReply == trace[Len(trace)]

\* the last call was a device-proxy read_into that got as far as its command
TgReadAnswered ==
    /\ backend = "tango" /\ pc = "idle" /\ op.name = "read_into"
    /\ Len(RequestTrace) = 1

\* C12 (as claimed): a device-proxy read_into of n bytes returns Ok only if
\* the command returned a byte array of exactly n bytes, which is then the
\* content of the buffer; a byte array of another length is an error.
C12_TangoExactLength ==
    (TgReadAnswered /\ result = Ok) =>
        /\ TgReply[1] = "CharArray"
        /\ Len(TgReply[2]) = op.len
        /\ buf = TgReply[2]

-----------------------------------------------------------------------------
(* C13 *)

\* the last read_into / write of the register transport failed with an I/O
\* error of the transport in one of its requests
MbIoFailure ==
    /\ backend = "modbus" /\ pc = "idle" /\ IsReadWrite
    /\ RequestTrace # <<>>
    /\ IsErr(result) /\ result.err.kind = "Wrapped"

\* the last read_into / write of the device proxy failed because its command
\* invocation returned an error
TgCommandFailure ==
    /\ backend = "tango" /\ pc = "idle" /\ IsReadWrite
    /\ RequestTrace # <<>>
    /\ trace[Len(trace)] = <<"DevFailed">>

\* C13 (as claimed): a device-proxy read_into / write whose command fails,
\* and a register-transport read_into / write that fails with an I/O error,
\* has dropped the backend's handle when it returns the error.
C13_HandleDroppedOnFailure ==
    (MbIoFailure \/ TgCommandFailure) => IsErr(result) /\ HandleField = None

-----------------------------------------------------------------------------
(* C14 *)

\* the start register of the last register-transport call
StartReg == convert_addr(op.addr)

\* the last call was a register-transport read_into of an even length above
\* 250 bytes that issued requests, for registers that all exist
MbLongRead ==
    /\ backend = "modbus" /\ Returned /\ op.name = "read_into"
    /\ op.len > 250 /\ op.len % 2 = 0
    /\ RequestTrace # <<>>
    /\ StartReg.tag = "Ok"
    /\ StartReg.val + op.len \div 2 <= B16

\* the number of chunks of a read of len bytes, and the k-th request (from 1)
\* of a read of len bytes from register r
NumChunks(len) == (len + 249) \div 250
ChunkRequest(r, len, k) ==
    <<"read_holding_registers", r + 125 * (k - 1),
      IF k < NumChunks(len) THEN 125 ELSE (len - 250 * (NumChunks(len) - 1)) \div 2>>

\* what one read of len / 2 registers from r gives, each low byte first
LogicalRead(r, len) ==
    [j \in 1..len |->
        IF j % 2 = 1 THEN PeerReg(r + (j - 1) \div 2) % 256
                     ELSE PeerReg(r + (j - 1) \div 2) \div 256]

-----------------------------------------------------------------------------
(* C15, C16, C17: detect_magic *)

\* detect_magic has returned
DmReturned == dm.pc = "done" /\ dm.idx >= 1

NumProbes == Len(dm.probes)
ProbeValue(i) == F32(dm.probes[i].magic)

InRange(x, lo, hi) == F32Ge(x, lo) /\ F32Le(x, hi)
InGenerationA(x) == InRange(x, F2015_01, F2015_03)
InGenerationB(x) == InRange(x, F2021_08, F2021_10)

\* the i-th read succeeded with a value in [2015, 2045]
ProbeValid(i) == dm.probes[i].res = Ok /\ InRange(ProbeValue(i), F2015, F2045)

\* the reads were made at the offsets of get_offsets(), each once, in order
ProbesInOrder ==
    /\ NumProbes <= Len(GetOffsets)
    /\ \A i \in 1..NumProbes : dm.probes[i].offset = USIZE(GetOffsets[i])

\* C15: detect_magic returns the classification of the first offset, in
\* get_offsets() order, whose read succeeds with a value in [2015, 2045]:
\* M2015_02 for a value in [2015.01, 2015.03], M2021_09 for one in
\* [2021.08, 2021.10] (the bounds being the f32 values of these literals);
\* offsets whose read fails or gives a value outside [2015, 2045] are skipped.
C15_FirstMatchWins ==
    /\ ProbesInOrder
    /\ \A i \in 1..(NumProbes - 1) : ~ProbeValid(i)
    /\ DmReturned =>
        /\ NumProbes < Len(GetOffsets) => ProbeValid(NumProbes)
        /\ (NumProbes >= 1 /\ ProbeValid(NumProbes)) =>
              /\ InGenerationA(ProbeValue(NumProbes)) => dm.result = OkMagic("M2015_02")
              /\ InGenerationB(ProbeValue(NumProbes)) => dm.result = OkMagic("M2021_09")
        /\ dm.result.tag = "Ok" =>
              /\ NumProbes >= 1 /\ ProbeValid(NumProbes)
              /\ dm.result.val = "M2015_02" => InGenerationA(ProbeValue(NumProbes))
              /\ dm.result.val = "M2021_09" => InGenerationB(ProbeValue(NumProbes))

\* 2021.09 at the second probe offset and no answer at the first
C15_Witness ==
    /\ DmReturned /\ NumProbes = 2
    /\ IsErr(dm.probes[1].res)
    /\ dm.probes[2].offset = USIZE(24576)
    /\ ProbeValue(2) = F32Rec(0, 137, 8168161)
    /\ dm.result = OkMagic("M2021_09")

\* the i-th read succeeded with a value in [2015, 2045] of neither generation
ProbeUnsupported(i) ==
    /\ ProbeValid(i)
    /\ ~InGenerationA(ProbeValue(i)) /\ ~InGenerationB(ProbeValue(i))

\* C16: when a read succeeds with a value in [2015, 2045] that is in neither
\* [2015.01, 2015.03] nor [2021.08, 2021.10], detect_magic returns the
\* unsupported-magic error at once and reads at no later offset.
C16_UnsupportedIsTerminal ==
    \A i \in 1..NumProbes :
        ProbeUnsupported(i) =>
            /\ i = NumProbes
            /\ dm.pc = "done"
            /\ dm.result = Err(PlcError("Magic not supported", ProbeValue(i)))

\* 2030.0 at the first of three offsets
C16_Witness ==
    /\ DmReturned /\ Len(GetOffsets) = 3 /\ NumProbes = 1
    /\ dm.probes[1].res = Ok
    /\ ProbeValue(1) = F32Rec(0, 137, 8241152)
    /\ IsErr(dm.result)

\* C17: when at every offset the read fails or gives a value outside
\* [2015, 2045], detect_magic reads at every offset of get_offsets() once, in
\* order, swallows the read errors and returns the not-found error.
C17_NotFound ==
    (DmReturned /\ \A i \in 1..NumProbes : ~ProbeValid(i)) =>
        /\ NumProbes = Len(GetOffsets)
        /\ ProbesInOrder
        /\ dm.result = Err(PlcError("No supported magic or offset found", <<>>))

C17_Witness ==
    /\ DmReturned /\ NumProbes = 3
    /\ IsErr(dm.probes[1].res)
    /\ dm.probes[2].res = Ok /\ ProbeValue(2) = F32Step(F2045, 1)
    /\ IsErr(dm.probes[3].res)
    /\ dm.result.err.kind = "PLC"

-----------------------------------------------------------------------------
(* C18 *)

\* the description an exact-match search of the whole catalog gives a code
LinearDescription(c) ==
    IF \E i \in 1..Len(ADS_ERRORS) : ADS_ERRORS[i][1] = c
        THEN ADS_ERRORS[CHOOSE i \in 1..Len(ADS_ERRORS) : ADS_ERRORS[i][1] = c][2]
        ELSE "Unknown error code"

CodesStrictlyIncreasing ==
    \A i \in 1..(Len(ADS_ERRORS) - 1) : ADS_ERRORS[i][1] < ADS_ERRORS[i + 1][1]

\* a call of find_ads_error has returned
ErrorFound == op.name = "find_ads_error" /\ pc = "idle"

\* C18: find_ads_error(c) returns an ADS error carrying c, with the
\* description of the catalog entry whose code is c when there is one and
\* with "Unknown error code" otherwise, as a linear exact-match search of
\* ADS_ERRORS does; the codes of the table are strictly increasing.
C18_CatalogLookup ==
    /\ CodesStrictlyIncreasing
    /\ ErrorFound =>
        result = Err(AdsError(LinearDescription(op.data[1]), U32(op.data[1])))

\* a code in the middle of the catalog has been looked up
C18_Witness ==
    /\ ErrorFound
    /\ op.data[1] = ADS_ERRORS[Len(ADS_ERRORS) \div 2][1]
    /\ result.err.msg = ADS_ERRORS[Len(ADS_ERRORS) \div 2][2]
    /\ result.err.msg # "Unknown error code"

-----------------------------------------------------------------------------
(* C19, C20: the constructors *)

\* new() has returned
Constructed == op.name = "new" /\ pc = "idle"

IsNumUpTo(f, max) == f.kind = "num" /\ f.n <= max

\* the address string is one of the format ads://host[:port]/amsnetid:amsport
AdsWellFormed(p) ==
    /\ p.scheme
    /\ p.port = Absent \/ IsNumUpTo(p.port, 65535)
    /\ Len(p.octets) \in {4, 6}
    /\ \A i \in 1..Len(p.octets) : p.octets[i] <= 255
    /\ IsNumUpTo(p.ams, 65535)

\* C19: for a valid ADS address with a network id of 4 octets a.b.c.d,
\* AdsProto::new gives the target network id [a, b, c, d, 1, 1] and the AMS
\* port of the address; a network id of 6 octets is kept as it is, and the
\* TCP port is 0xBF02 when the host part has no port.
C19_NetIdExtended ==
    (backend = "ads" /\ Constructed /\ AdsWellFormed(op.parts)) =>
        /\ result.tag = "Ok"
        /\ result.val.host = op.parts.host
        /\ Len(op.parts.octets) = 4 => target_netid = op.parts.octets \o <<1, 1>>
        /\ Len(op.parts.octets) = 6 => target_netid = op.parts.octets
        /\ target_port = op.parts.ams.n
        /\ host_port = IF op.parts.port = Absent THEN 48898 ELSE op.parts.port.n

\* ads://h/5.53.35.202:851
C19_Witness ==
    /\ backend = "ads" /\ Constructed
    /\ op.data = <<"a", "d", "s", ":", "/", "/", "h", "/", "5", ".", "5", "3", ".",
                   "3", "5", ".", "2", "0", "2", ":", "8", "5", "1">>
    /\ target_netid = <<5, 53, 35, 202, 1, 1>>
    /\ target_port = 851
    /\ host_port = 48898

MbWellFormed(p) ==
    /\ p.scheme
    /\ p.port = Absent \/ IsNumUpTo(p.port, 65535)
    /\ p.slave = Absent \/ IsNumUpTo(p.slave, 255)

TgWellFormed(p) ==
    /\ p.scheme
    /\ p.db = Absent \/ p.db.kind = "num"
    /\ Len(p.names) = 3
    /\ p.dbase \in {<<>>, <<"n", "o">>, <<"y", "e", "s">>}

Malformed ==
    IF backend = "ads" THEN ~AdsWellFormed(op.parts)
    ELSE IF backend = "modbus" THEN ~MbWellFormed(op.parts)
    ELSE ~TgWellFormed(op.parts)

\* C20 (as claimed): for a malformed address string (no scheme, a wrong
\* number of network-id fields, a port that is no number, an octet above 255
\* or a port above 65535) new() of each backend returns the InvalidAddress
\* error: no instance is made and nothing is done on the network.
C20_MalformedRejected ==
    (Constructed /\ Malformed) =>
        /\ IsErr(result) /\ result.err.kind = "InvalidAddress"
        /\ trace = <<>>
        /\ LiveHandles = 0

-----------------------------------------------------------------------------
(* C21 *)

\* the one-shot flag as the j-th event of the current call's trace found it:
\* set when the call began, or set by a provisioning earlier in the call
FlagAt(j) == op.tried \/ \E k \in 1..(j - 1) : trace[k][1] = "set_route"

\* the j-th event is a handshake that failed with all three conditions of
\* the provisioning retry met
Triggers(j) ==
    /\ trace[j][1] = "handshake"
    /\ trace[j][2] = Err(IoError("UnexpectedEof"))
    /\ ~FlagAt(j)
    /\ host_port = 48898

HandshakeFailedAt(j) == trace[j][1] = "handshake" /\ IsErr(trace[j][2])

\* C21: connect() provisions a route (set_route, its datagrams) and opens a
\* second TCP connection only right after a handshake that failed with an
\* I/O error of kind unexpected end-of-stream while tried_route was false and
\* the TCP port was 0xBF02; after any other handshake failure nothing more is
\* done on the network and the failure itself is what is returned.
C21_RetryOnlyWhenAllThree ==
    backend = "ads" =>
        /\ \A j \in 1..Len(trace) :
            /\ trace[j][1] = "set_route" => j > 1 /\ Triggers(j - 1)
            /\ trace[j][1] = "udp" => \E k \in 1..(j - 1) : trace[k][1] = "set_route"
            /\ (HandshakeFailedAt(j) /\ ~Triggers(j)) =>
                /\ j = Len(trace)
                /\ pc = "idle"
                /\ result = trace[j][2]
        /\ Count("tcp_connect") + Count("resolve") <= 1 + Count("set_route")

\* a connect() on another port than the default one whose handshake failed
\* with unexpected end-of-stream, the flag unset, has returned that failure
C21_Witness ==
    /\ backend = "ads" /\ pc = "idle" /\ op.name = "connect"
    /\ host_port # 48898
    /\ ~op.tried /\ ~tried_route
    /\ Len(trace) > 0
    /\ trace[Len(trace)] = <<"handshake", Err(IoError("UnexpectedEof"))>>
    /\ result = Err(IoError("UnexpectedEof"))
    /\ Count("tcp_connect") = 1
    /\ Count("udp") = 0

-----------------------------------------------------------------------------
(* C22 *)

\* C22 (as claimed): after a connect() of the ADS backend that returned an
\* error, from the TCP connection or from the handshake, socket is None.
C22_NoHandleAfterFailedConnect ==
    (backend = "ads" /\ pc = "idle" /\ op.name = "connect" /\ IsErr(result))
        => socket = None

-----------------------------------------------------------------------------
(* C23 *)

\* the events of a connect() in the current call's trace
ConnectTrace ==
    SelectSeq(trace, LAMBDA e : e[1] \in {"resolve", "tcp_connect", "setup", "handshake",
                  "set_route", "udp", "set_route_result", "DeviceProxy::new",
                  "command_inout", "command_query"})

\* the current read_into / write has sent its own request
RequestSent ==
    IF backend = "ads" THEN comm.cmd \in {ADS_READ, ADS_WRITE} /\ Len(comm.sent) > 0
    ELSE RequestTrace # <<>>

\* a step in which the caller's read_into / write begins
StartsReadWrite ==
    /\ pc = "idle" /\ pc' # "idle"
    /\ op'.name \in {"read_into", "write"}

\* a step in which the connect() inside a read_into / write returns
ReconnectReturns ==
    /\ pc \in {"connect", "setup", "handshake"} /\ pc' \in {"request", "idle"}
    /\ op.name \in {"read_into", "write"}

\* C23: a read_into / write that begins with no handle held runs connect()
\* first and one that begins with a handle runs none; its request is sent only
\* after that connect() returned Ok, and when the connect() returns an error,
\* the call returns that error and no request has been sent.
C23_LazyReconnect ==
    [][/\ StartsReadWrite =>
            /\ trace' = <<>> /\ ~RequestSent'
            /\ HandleField = None => pc' = "connect"
            /\ HandleField # None => pc' = "request"
       /\ ReconnectReturns =>
            /\ ~RequestSent'
            /\ pc' = "request" =>
                /\ HandleField' # None
                /\ backend = "ads" => trace'[Len(trace')] = <<"handshake", Ok>>
            /\ pc' = "idle" =>
                /\ IsErr(result')
                /\ backend = "ads" =>
                    \/ trace'[Len(trace')] = <<"handshake", result'>>
                    \/ trace'[Len(trace')][1] \in {"resolve", "tcp_connect", "setup"}
       /\ (RequestSent' /\ ~RequestSent) => pc = "request"
       /\ pc = "request" => ConnectTrace' = ConnectTrace
      ]_vars

\* a read_into / write that began without a handle has returned the error of
\* its connect(), which failed after the TCP connection was opened, and has
\* sent no request
C23_Witness ==
    /\ pc = "idle" /\ IsReadWrite
    /\ IsErr(result)
    /\ ConnectTrace # <<>> /\ Len(ConnectTrace) = Len(trace)
    /\ Len(trace) >= 2
    /\ ~RequestSent

-----------------------------------------------------------------------------
(* C24 *)

\* the last call was a register-transport read_into that returned the I/O
\* error of a register read
MbReadIoFailed ==
    /\ backend = "modbus" /\ pc = "idle" /\ op.name = "read_into"
    /\ IsErr(result)
    /\ result.err.kind = "Wrapped"
    /\ result.err.cause = ModbusError("Io")

\* C24: when the register read for chunk k of a read_into fails with an I/O
\* error, the client handle is dropped, the error is returned wrapped with
\* the annotation "read", the failed read is the last request of the call,
\* and the registers the reads for the chunks before k returned are in the
\* buffer, low byte first.
C24_ChunkIoFailure ==
    MbReadIoFailed =>
        /\ client = None
        /\ result.err.ann = "read"
        /\ Len(RequestTrace) \in 1..NumChunks(op.len)
        /\ trace[Len(trace)] = RequestTrace[Len(RequestTrace)]
        /\ \A i \in 1..(Len(RequestTrace) - 1) : \A m \in 0..124 :
                /\ buf[250 * (i - 1) + 2 * m + 1] = PeerReg(RequestTrace[i][2] + m) % 256
                /\ buf[250 * (i - 1) + 2 * m + 2] = PeerReg(RequestTrace[i][2] + m) \div 256

\* the second of three chunks failed: the first 250 bytes are peer data and
\* the rest of the buffer is as the caller passed it
C24_Witness ==
    /\ MbReadIoFailed
    /\ op.len = 502
    /\ Len(RequestTrace) = 2
    /\ client = None
    /\ buf[250] # BufInit(502)[250]
    /\ buf[251] = BufInit(502)[251]

-----------------------------------------------------------------------------
(* C25 *)

\* a step in which connect() provisions a route
ProvisioningStep == Count("set_route")' > Count("set_route")

\* C25: tried_route is false after construction and no step of disconnect,
\* connect, read_into or write takes it from true to false; a route is
\* provisioned only in a step that finds the flag false and leaves it true,
\* hence at most once in the life of the instance.
C25_FlagMonotone ==
    /\ ~tried_route
    /\ [][/\ tried_route => tried_route'
          /\ ProvisioningStep => ~tried_route /\ tried_route'
         ]_vars

\* a later connect() on the default port, begun with the flag set, met the
\* closed connection again and returned it without provisioning a route
C25_Witness ==
    /\ backend = "ads" /\ pc = "idle" /\ op.name = "connect"
    /\ op.tried /\ tried_route
    /\ host_port = 48898
    /\ result = Err(IoError("UnexpectedEof"))
    /\ Count("handshake") = 1
    /\ Count("set_route") = 0

-----------------------------------------------------------------------------
(* C26 *)

\* (x + 1) mod 2^32 for a u32 x
Next32(x) ==
    IF x[1] < B16 - 1 THEN <<x[1] + 1, x[2]>>
    ELSE IF x[2] < B16 - 1 THEN <<0, x[2] + 1>>
    ELSE <<0, 0>>

\* a step in which communicate() is called
CommunicateStep == comm' # comm /\ comm' # NoComm

\* C26: the invoke-id is 0 in a new instance; every call of communicate()
\* puts (invoke_id + 1) mod 2^32 into the field and into the request header,
\* and no other step (disconnect, connect, a return with an error, the route
\* provisioning) changes the field.
C26_InvokeIdWrapping ==
    /\ op.name = "new" => invoke_id = <<0, 0>>
    /\ [][/\ CommunicateStep =>
                /\ invoke_id' = Next32(invoke_id)
                /\ comm'.hdr.invoke_id = invoke_id'
          /\ ~CommunicateStep => invoke_id' = invoke_id
         ]_vars

\* the request after the one with invoke-id 2^32 - 1 was sent with invoke-id 0
C26_Witness ==
    /\ backend = "ads"
    /\ invoke_id = <<0, 0>>
    /\ comm.hdr.invoke_id = <<0, 0>>
    /\ Len(comm.sent) > 0
    /\ comm.sent[1][2].invoke_id = <<0, 0>>

-----------------------------------------------------------------------------
(* C27 *)

\* where in the trace the set_route() begun at event j returned
RouteResultAt(j) ==
    CHOOSE r \in (j + 1)..Len(trace) :
        /\ trace[r][1] = "set_route_result"
        /\ \A k \in (j + 1)..(r - 1) : trace[k][1] # "set_route_result"

\* the connection attempts after event r of the trace
AttemptsAfter(r) ==
    Cardinality({k \in (r + 1)..Len(trace) : trace[k][1] \in {"resolve", "tcp_connect"}})

\* C27: whatever set_route() returns, connect() goes on to the recursive
\* connect(), makes it once, and returns what it returned; a set_route() that
\* returned Ok sent two datagrams before that, the first with the empty
\* password and the second with the password "1", and one that failed sent
\* fewer.
C27_RouteFireAndForget ==
    backend = "ads" =>
        \A j \in 1..Len(trace) : trace[j][1] = "set_route" =>
            LET r == RouteResultAt(j)
            IN  /\ \E q \in (j + 1)..Len(trace) : trace[q][1] = "set_route_result"
                /\ \A k \in (j + 1)..(r - 1) : trace[k][1] = "udp"
                /\ trace[r][2] = Ok =>
                    /\ r = j + 3
                    /\ trace[j + 1][2].str_pass = <<0, 0>>
                    /\ trace[j + 2][2].str_pass = <<49, 0>>
                /\ trace[r][2] # Ok => r < j + 3
                /\ IF r = Len(trace)
                      THEN pc = "connect" /\ depth = 2
                      ELSE /\ trace[r + 1][1] \in {"resolve", "tcp_connect"}
                           /\ AttemptsAfter(r) = 1
                /\ (pc = "idle" /\ op.name = "connect") =>
                    IF trace[Len(trace)][1] = "handshake"
                        THEN result = trace[Len(trace)][2]
                        ELSE /\ trace[Len(trace)][1] \in {"resolve", "tcp_connect", "setup"}
                             /\ IsErr(result)

\* set_route() could not bind its socket, no datagram left, and the second
\* connection succeeded: connect() returned Ok
C27_Witness ==
    /\ backend = "ads" /\ pc = "idle" /\ op.name = "connect"
    /\ result = Ok
    /\ Count("set_route") = 1
    /\ Count("udp") = 0
    /\ IsErr(Events("set_route_result")[1][2])
    /\ Count("tcp_connect") = 2

-----------------------------------------------------------------------------
(* C28 *)

\* a step in which the caller's disconnect() runs
DisconnectStep ==
    /\ pc = "idle" /\ pc' = "idle"
    /\ op'.name = "disconnect"
    /\ dm' = dm

\* C28: disconnect() of each backend returns at once, without an error and
\* with nothing done on the network; the transport handle is absent after it
\* and no other field of the instance has changed, so that on an instance
\* that holds no handle it changes nothing.
C28_DisconnectFrame ==
    [][DisconnectStep =>
        /\ HandleField' = None
        /\ result' = NoResult
        /\ trace' = <<>> /\ comm' = NoComm
        /\ UNCHANGED <<backend, overflow_checks, host_port, target_netid, target_port,
                       source_netid, invoke_id, tried_route, offset, base, local, depth>>
        /\ backend # "ads" => UNCHANGED socket
        /\ backend # "modbus" => UNCHANGED client
        /\ backend # "tango" => UNCHANGED device
        /\ HandleField = None => UNCHANGED <<socket, client, device>>
      ]_vars

\* an ADS instance that has connected, provisioned a route and made requests
\* was disconnected: the handle is gone and the other fields are as they were
C28_Witness ==
    /\ backend = "ads" /\ pc = "idle" /\ op.name = "disconnect"
    /\ socket = None
    /\ tried_route /\ op.tried
    /\ invoke_id = <<2, 0>>
    /\ source_netid = <<10, 0, 0, 7, 1, 1>>
    /\ trace = <<>>
    /\ result = NoResult
====
